---- MODULE Spec2Model ----
(***************************************************************************)
(* Backup lifecycle of backpy: one backup space (its directory of          *)
(* <uuid>.toml metadata files and archives, its remote mirror) and the      *)
(* operations Backup.new, Backup.delete, lock/unlock, Backup.load_by_uuid,  *)
(* BackupSpace.perform_auto_deletion and FileBackupSpace.restore_backup,    *)
(* each split into the steps of its code.  The program is single-threaded:  *)
(* one operation runs at a time (pc), started from "idle" and ended in      *)
(* "done", where its outcome can be inspected before Return.                *)
(***************************************************************************)
EXTENDS Integers, Sequences, FiniteSets, TLC

\* ------------------------------------------------------------------ bounds
\* number of backups created in one behaviour on a space with a bound remote
MaxCreated == 2
\* number of backups created in one behaviour on a space without remote
MaxCreatedLocal == 3
\* number of backups created in one behaviour of the restore specification
MaxRestoreCreated == 1
\* number of backups created in one behaviour of the sweep specification
MaxSweepCreated == 2
\* archive sizes are 1..MaxArchiveSize
MaxArchiveSize == 2
\* the configured max_backups is -1 or in 0..MaxBackupsLimit
MaxBackupsLimit == 2
\* the configured max_size is -1 or MaxSizeLimit
MaxSizeLimit == 3
\* number of backup spaces created on the host in one behaviour
MaxSpaces == 2
\* number of schedule files the schedule directory holds at one time
MaxSchedules == 2
\* number of cron jobs the crontab holds for one schedule
MaxJobs == 2
\* the max_retries argument of a Remote.upload / Remote.download call is in
\* 0..MaxRetriesArg
MaxRetriesArg == 2

\* ------------------------------------------------------- program constants
\* max_backups / max_size value meaning "unlimited"
Unlimited == -1
\* default max_retries of Remote.upload / Remote.download
MaxRetries == 3

Ids == 1 .. (IF MaxCreated > MaxCreatedLocal THEN MaxCreated ELSE MaxCreatedLocal)
Sizes == 1 .. MaxArchiveSize
Locations == {"local", "remote", "all"}
Rules == {"oldest", "newest", "largest", "smallest"}
RestoreModes == {"OVERWRITE", "CLEAN", "REPLACE", "MERGE"}
Sources == {"local", "remote"}
\* what a <uuid>.toml holds: every key Backup.update_config writes, all of them
\* but one that load_by_uuid reads (created_at, comment), or no TOML at all
SpaceNames == {"", "docs"}
SortBys == {"none", "date", "size"}
\* the names of compression._compression_methods; "zip" is the default
Algorithms == {"zip", "gztar", "bztar", "xztar"}
TomlStates == {"complete", "no_created_at", "no_comment", "unparsable"}

VARIABLES
    cfg,      \* the space's config.toml: limits, auto deletion, remote binding
    meta,     \* the <uuid>.toml files of the backup directory
    local,    \* the archive files of the backup directory
    rarch,    \* the archives of the remote mirror directory
    rmeta,    \* the <uuid>.toml files of the remote mirror directory
    target,   \* the files of the space's file_path (source and restore target)
    nextId,   \* the next uuid Backup.new draws
    pc,       \* position of the running operation
    op,       \* the running operation's arguments and locals
    pre,      \* the files as they were when the running operation started
    result,   \* how the operation ended
    xfer,     \* how the last Remote.upload / Remote.download call ended
    onlyCreates, \* history: every operation so far was an unlocked create_backup that returned
    spaces,   \* the backup spaces of the host: name, directory, remote mirror
    schedules, \* the <uuid>.toml files of the schedule directory
    crontab,  \* the user's crontab: per schedule uuid, the jobs tagged with it
    client    \* Remote._client: no session yet, an open one, or a closed one

vars == <<cfg, meta, local, rarch, rmeta, target, nextId, pc, op, pre, result, xfer, onlyCreates,
          spaces, schedules, crontab, client>>

files == <<meta, local, rarch, rmeta>>

\* --------------------------------------------------------------- helpers
Remove(f, i) == [j \in DOMAIN f \ {i} |-> f[j]]

Put(f, i, v) == [j \in DOMAIN f \cup {i} |-> IF j = i THEN v ELSE f[j]]

Empty == [j \in {} |-> 0]

RECURSIVE SumOver(_, _)
SumOver(f, S) ==
    IF S = {} THEN 0
    ELSE LET i == CHOOSE j \in S : TRUE IN f[i] + SumOver(f, S \ {i})

NoOp == [kind |-> "none"]
NoPre == [kind |-> "none"]
NoResult == [status |-> "none"]
NoXfer == [fn |-> "none"]

\* the bytes of the archive compress makes for backup i in the space's
\* format, and the bytes of a file that was damaged (in transfer or on disk)
ArchiveOf(i) == [of |-> i, intact |-> TRUE, fmt |-> cfg.compression_algorithm]

Damaged(content) == [content EXCEPT !.intact = FALSE]

\* calculate_sha256sum: the digest of a file's bytes (injective on contents)
calculate_sha256sum(content) == <<"sha256", content.of, content.intact, content.fmt>>

\* the digest Backup.new hands to the constructor: that of the moved archive
sha256sum_of_zip(i) ==
    calculate_sha256sum([ArchiveOf(i) EXCEPT !.fmt = "zip"])

sha256sum(i) ==
    calculate_sha256sum(ArchiveOf(i))

\* -------------------------------------------------------- Backup getters
has_local_archive(i) == i \in DOMAIN local

has_remote_archive(i) == meta[i].remote /\ i \in DOMAIN rarch

calculate_hash(i) == calculate_sha256sum(local[i].content)

\* Remote.get_hash of the remote archive
remote_get_hash(i) == calculate_sha256sum(rarch[i].content)

\* check_hash that compares the local archive whatever tier is asked for
check_hash_ignores_tier(i, remote) ==
    IF has_local_archive(i) THEN calculate_hash(i) = meta[i].hash
    ELSE FALSE

check_hash(i, remote) ==
    IF remote /\ has_remote_archive(i) THEN remote_get_hash(i) = meta[i].hash
    ELSE IF has_local_archive(i) THEN calculate_hash(i) = meta[i].hash
    ELSE FALSE

\* TOMLConfiguration.is_valid: the file parses as TOML
is_valid(i) == meta[i].toml # "unparsable"

\* the copies whose digest differs from the persisted one, in the order
\* load_by_uuid checks them: the remote copy (TRUE), then the local one (FALSE)
mismatching_copies(i) ==
    {remote \in BOOLEAN :
        /\ (IF remote THEN has_remote_archive(i) ELSE has_local_archive(i))
        /\ ~check_hash(i, remote)}

\* a load_by_uuid that verifies one copy only: the remote one when there is
\* one, else the local one
load_by_uuid_checks_one_copy(i, chk, fail_invalid) ==
    IF i \notin DOMAIN meta THEN "InvalidBackupError"
    ELSE IF ~is_valid(i) THEN "InvalidBackupError"
    ELSE IF meta[i].toml = "no_created_at" THEN "TypeError"
    ELSE IF ~chk THEN "ok"
    ELSE IF ~has_remote_archive(i) /\ ~has_local_archive(i) THEN "InvalidBackupError"
    ELSE IF fail_invalid
            /\ IF has_remote_archive(i) THEN ~check_hash(i, TRUE) ELSE ~check_hash(i, FALSE)
         THEN "InvalidChecksumError"
    ELSE "ok"

\* Backup.load_by_uuid: the exception it raises, or "ok" when it returns
load_by_uuid(i, chk, fail_invalid) ==
    IF i \notin DOMAIN meta THEN "InvalidBackupError"
    ELSE IF ~is_valid(i) THEN "InvalidBackupError"
    ELSE IF meta[i].toml = "no_created_at" THEN "TypeError"
    ELSE IF ~chk THEN "ok"
    ELSE IF ~has_remote_archive(i) /\ ~has_local_archive(i) THEN "InvalidBackupError"
    ELSE IF fail_invalid /\ mismatching_copies(i) # {}
         THEN "InvalidChecksumError"
    ELSE "ok"

\* the copies load_by_uuid warns about before it returns
load_by_uuid_warnings(i, chk, fail_invalid) ==
    IF load_by_uuid(i, chk, fail_invalid) = "ok" /\ chk THEN mismatching_copies(i)
    ELSE {}

\* ---------------------------------------------------- BackupSpace getters
\* BackupSpace.get_backups: the backups that load (failures are skipped)
get_backups(chk, unlocked_only) ==
    {i \in DOMAIN meta : /\ load_by_uuid(i, chk, FALSE) = "ok"
                         /\ ~(meta[i].locked /\ unlocked_only)}

\* Backup.get_file_size raises FileNotFoundError for a backup without archive
has_file_size(i) == has_local_archive(i) \/ has_remote_archive(i)

get_file_size(i) ==
    IF has_local_archive(i) THEN local[i].size ELSE rarch[i].size

\* get_disk_usage / a sort by size raise when one listed backup has no archive
SizeError == \E i \in get_backups(FALSE, FALSE) : ~has_file_size(i)

get_disk_usage ==
    LET S == get_backups(FALSE, FALSE)
        sz == [i \in S |-> get_file_size(i)]
        total == SumOver(sz, S)
    IN IF total > 0 THEN total ELSE 0

\* is_backup_limit_reached that answers only when the limit is exceeded
is_backup_limit_exceeded(post_creation) ==
    IF cfg.max_backups = Unlimited THEN FALSE
    ELSE LET offset == IF post_creation THEN 1 ELSE 0
         IN Cardinality(get_backups(TRUE, FALSE)) - offset > cfg.max_backups

\* is_backup_limit_reached that never subtracts the backup just created
is_backup_limit_reached_without_offset(post_creation) ==
    IF cfg.max_backups = Unlimited THEN FALSE
    ELSE Cardinality(get_backups(TRUE, FALSE)) >= cfg.max_backups

is_backup_limit_reached(post_creation) ==
    IF cfg.max_backups = Unlimited THEN FALSE
    ELSE LET offset == IF post_creation THEN 1 ELSE 0
         IN Cardinality(get_backups(TRUE, FALSE)) - offset >= cfg.max_backups

is_disk_limit_reached ==
    IF cfg.max_size = Unlimited THEN FALSE
    ELSE get_disk_usage >= cfg.max_size

\* is_disk_limit_reached raises instead of answering
DiskCheckRaises == cfg.max_size # Unlimited /\ SizeError

\* the first / last element where perform_auto_deletion takes the last / first
VictimsFromOtherEnd(rule) ==
    LET S == get_backups(FALSE, FALSE) IN
    CASE rule = "oldest"   -> {i \in S : \A j \in S : meta[i].created_at >= meta[j].created_at}
      [] rule = "newest"   -> {i \in S : \A j \in S : meta[i].created_at <= meta[j].created_at}
      [] rule = "largest"  -> {i \in S : \A j \in S : get_file_size(i) <= get_file_size(j)}
      [] rule = "smallest" -> {i \in S : \A j \in S : get_file_size(i) >= get_file_size(j)}

\* the backups perform_auto_deletion may pick: the last / first element of the
\* list sorted by date or size (equal sizes keep the directory's glob order,
\* so any of them may be the one)
Victims(rule) ==
    LET S == get_backups(FALSE, FALSE) IN
    CASE rule = "oldest"   -> {i \in S : \A j \in S : meta[i].created_at <= meta[j].created_at}
      [] rule = "newest"   -> {i \in S : \A j \in S : meta[i].created_at >= meta[j].created_at}
      [] rule = "largest"  -> {i \in S : \A j \in S : get_file_size(i) >= get_file_size(j)}
      [] rule = "smallest" -> {i \in S : \A j \in S : get_file_size(i) <= get_file_size(j)}

\* the loop condition of perform_auto_deletion (`or` short-circuits)
AutoDeletionContinues ==
    /\ Cardinality(get_backups(TRUE, FALSE)) > 0
    /\ (is_backup_limit_reached(FALSE) \/ is_disk_limit_reached)

AutoDeletionConditionRaises ==
    /\ Cardinality(get_backups(TRUE, FALSE)) > 0
    /\ ~is_backup_limit_reached(FALSE)
    /\ DiskCheckRaises

\* ------------------------------------------------------------------- Init
\* the limits section of config.toml and the remote binding; the rule is the
\* constructor's default "oldest" unless auto deletion is switched on
Configs ==
    {c \in [max_backups : {Unlimited} \cup (0 .. MaxBackupsLimit),
            max_size : {Unlimited, MaxSizeLimit},
            auto_deletion : BOOLEAN,
            auto_deletion_rule : Rules,
            remote : BOOLEAN,
            compression_algorithm : {"zip"}] :
        ~c.auto_deletion => c.auto_deletion_rule = "oldest"}

\* spaces of every compression algorithm, without limit or with max_backups 1
CompressionConfigs ==
    [max_backups : {Unlimited, 1},
     max_size : {Unlimited},
     auto_deletion : BOOLEAN,
     auto_deletion_rule : {"oldest"},
     remote : BOOLEAN,
     compression_algorithm : Algorithms]

\* spaces with auto deletion on, every rule, limits that include 0
SweepConfigs ==
    [max_backups : {Unlimited} \cup (0 .. MaxBackupsLimit),
     max_size : {Unlimited, 0, MaxSizeLimit},
     auto_deletion : {TRUE},
     auto_deletion_rule : Rules,
     remote : {FALSE},
     compression_algorithm : {"zip"}]

InitWith(configs) ==
    /\ cfg \in configs
    /\ meta = Empty
    /\ local = Empty
    /\ rarch = Empty
    /\ rmeta = {}
    /\ target = {"pre_match", "pre_other"}
    /\ nextId = 1
    /\ pc = "idle"
    /\ op = NoOp
    /\ pre = NoPre
    /\ result = NoResult
    /\ xfer = NoXfer
    /\ onlyCreates = TRUE
    /\ spaces = Empty
    /\ schedules = Empty
    /\ crontab = [j \in 1 .. MaxSchedules |-> 0]
    /\ client = "none"

Init == InitWith(Configs)

Snapshot == [meta |-> meta, local |-> local, rarch |-> rarch, rmeta |-> rmeta,
             target |-> target]

\* the operation ends: by returning (status "ok") or by raising `status`
Finish(status) ==
    /\ pc' = "done"
    /\ result' = [status |-> status]
    /\ onlyCreates' = (onlyCreates /\ status = "ok" /\ op.kind = "new" /\ ~op.lock)

Continue(next) ==
    /\ pc' = next
    /\ UNCHANGED <<result, onlyCreates>>

\* control is back at the caller; the next operation may start
Return ==
    /\ pc = "done"
    /\ pc' = "idle"
    /\ op' = NoOp
    /\ pre' = NoPre
    /\ result' = NoResult
    /\ xfer' = NoXfer
    /\ UNCHANGED <<spaces, schedules, crontab, client, cfg, files, target, nextId, onlyCreates>>

\* ------------------------------------------------------------ Backup.delete
\* what Backup.delete does to the files; the removal of the remote copies may
\* raise (remote_removed = FALSE), which delete catches and reports
BackupDelete(i, remote_removed) ==
    /\ meta' = Remove(meta, i)
    /\ local' = Remove(local, i)
    /\ IF has_remote_archive(i) /\ remote_removed
       THEN rarch' = Remove(rarch, i) /\ rmeta' = rmeta \ {i}
       ELSE UNCHANGED <<rarch, rmeta>>

\* ------------------------------------------------------------- Remote.upload
\* one transfer of Remote.upload and its digest comparison; `after` is what
\* the caller does when upload returns
UploadReturns(matched) ==
    /\ xfer' = [fn |-> "upload", outcome |-> "returned", match |-> matched]
    /\ IF op.kind = "new" /\ op.file = "archive"
       THEN /\ op' = [op EXCEPT !.file = "config", !.retries = MaxRetries]
            /\ Continue("upload")
       ELSE IF op.kind = "new"
       THEN /\ op' = op
            /\ Continue("new_finish")
       ELSE /\ op' = op
            /\ Finish("ok")

\* the remote copy a transfer of the running upload leaves behind
Transferred(intact) ==
    IF op.file = "archive"
    THEN /\ rarch' = Put(rarch, op.id,
                         [content |-> IF intact THEN local[op.id].content
                                      ELSE Damaged(local[op.id].content),
                          size |-> local[op.id].size])
         /\ UNCHANGED rmeta
    ELSE /\ rmeta' = rmeta \cup {op.id}
         /\ UNCHANGED rarch

SourceMissing ==
    IF op.file = "archive" THEN ~has_local_archive(op.id) ELSE op.id \notin DOMAIN meta

RemoteUpload ==
    /\ pc = "upload"
    /\ UNCHANGED <<spaces, schedules, crontab, client, cfg, meta, local, target, nextId, pre>>
    /\ IF SourceMissing
       THEN \* connect fails, or nothing is sent and hashing the source raises
            /\ xfer' = [fn |-> "upload", outcome |-> "raised", match |-> FALSE]
            /\ \/ Finish("TransportError")
               \/ Finish("FileNotFoundError")
            /\ UNCHANGED <<rarch, rmeta, op>>
       ELSE \/ \* connection or transfer failure
               /\ xfer' = [fn |-> "upload", outcome |-> "raised", match |-> FALSE]
               /\ Finish("TransportError")
               /\ UNCHANGED <<rarch, rmeta, op>>
            \/ \* the digests of source and remote copy are equal
               /\ Transferred(TRUE)
               /\ UploadReturns(TRUE)
            \/ \* the digests differ and a retry is left: remove the target, upload again
               /\ op.retries > 0
               /\ IF op.file = "archive"
                  THEN rarch' = Remove(rarch, op.id) /\ UNCHANGED rmeta
                  ELSE rmeta' = rmeta \ {op.id} /\ UNCHANGED rarch
               /\ op' = [op EXCEPT !.retries = @ - 1]
               /\ xfer' = [fn |-> "upload", outcome |-> "running", match |-> FALSE]
               /\ Continue("upload")
            \/ \* the digests differ and no retry is left: a warning, then return
               /\ op.retries = 0
               /\ Transferred(FALSE)
               /\ UploadReturns(FALSE)

\* ------------------------------------- the methods of Remote, step by step
\* Remote.connect closes the session it holds, makes a new SSHClient and
\* connects it; when connecting raises the new client stays unconnected
Connect(next) ==
    \/ client' = "open" /\ Continue(next)
    \/ client' = "closed" /\ Finish("TransportError")

\* a method that connects, works on the session and disconnects as its last
\* statement (get_hash, remove, mkdir): it returns with the session closed,
\* or connect raises, or the work raises and disconnect is not reached
SessionCall(outcome) ==
    client' = IF outcome = "raised" THEN "open" ELSE "closed"

SessionOutcomes == {"returned", "connect_raised", "raised"}

\* the retry condition of upload and download
may_retry_once_more(retry_on_hash_missmatch, max_retries) ==
    retry_on_hash_missmatch /\ max_retries >= 0

may_retry(retry_on_hash_missmatch, max_retries) ==
    retry_on_hash_missmatch /\ max_retries > 0

\* Remote.upload(source, target, check_hash, retry_on_hash_missmatch,
\* max_retries); op.copy is the file at the target path
Upload(chk, retry_on_hash_missmatch, max_retries) ==
    /\ pc = "idle"
    /\ op' = [kind |-> "upload", check_hash |-> chk,
              retry |-> retry_on_hash_missmatch, max_retries |-> max_retries,
              called_with |-> max_retries, transfers |-> 0, copy |-> "none",
              warned |-> FALSE]
    /\ pre' = [client |-> client]
    /\ Continue("upload_connect")
    /\ UNCHANGED <<spaces, schedules, crontab, client, cfg, files, target, nextId, xfer>>

UploadConnect ==
    /\ pc = "upload_connect"
    /\ Connect("upload_put")
    /\ UNCHANGED <<spaces, schedules, crontab, cfg, files, target, nextId, op, pre, xfer>>

\* sftp_client.put / scp_client.put: the file arrives, as sent or not, or the
\* transfer raises
UploadPut ==
    /\ pc = "upload_put"
    /\ \/ /\ \E copy \in {"intact", "damaged"} :
                op' = [op EXCEPT !.transfers = @ + 1, !.copy = copy]
          /\ Continue("upload_disconnect")
       \/ /\ op' = op
          /\ Finish("TransportError")
    /\ UNCHANGED <<spaces, schedules, crontab, client, cfg, files, target, nextId, pre, xfer>>

UploadDisconnect ==
    /\ pc = "upload_disconnect"
    /\ client' = "closed"
    /\ IF op.check_hash THEN Continue("upload_get_hash") ELSE Finish("ok")
    /\ UNCHANGED <<spaces, schedules, crontab, cfg, files, target, nextId, op, pre, xfer>>

\* the comparison of the digests; a mismatch with a retry left goes on to
\* remove the target, one without retry is a warning
UploadGetHash ==
    /\ pc = "upload_get_hash"
    /\ \E outcome \in SessionOutcomes :
          /\ SessionCall(outcome)
          /\ IF outcome # "returned"
             THEN op' = op /\ Finish("TransportError")
             ELSE IF op.copy = "intact"
             THEN op' = op /\ Finish("ok")
             ELSE IF may_retry(op.retry, op.max_retries)
             THEN op' = op /\ Continue("upload_remove")
             ELSE op' = [op EXCEPT !.warned = TRUE] /\ Finish("ok")
    /\ UNCHANGED <<spaces, schedules, crontab, cfg, files, target, nextId, pre, xfer>>

\* self.remove(target), then self.upload(..., max_retries=max_retries - 1)
UploadRemove ==
    /\ pc = "upload_remove"
    /\ \E outcome \in SessionOutcomes :
          /\ SessionCall(outcome)
          /\ IF outcome # "returned"
             THEN op' = op /\ Finish("TransportError")
             ELSE /\ op' = [op EXCEPT !.copy = "none", !.max_retries = @ - 1]
                  /\ Continue("upload_connect")
    /\ UNCHANGED <<spaces, schedules, crontab, cfg, files, target, nextId, pre, xfer>>

\* Remote.download(source, target, check_hash, retry_on_hash_missmatch,
\* max_retries); op.copy is the file at the local target path
Download(chk, retry_on_hash_missmatch, max_retries) ==
    /\ pc = "idle"
    /\ op' = [kind |-> "download", check_hash |-> chk,
              retry |-> retry_on_hash_missmatch, max_retries |-> max_retries,
              called_with |-> max_retries, transfers |-> 0, copy |-> "none",
              warned |-> FALSE]
    /\ pre' = [client |-> client]
    /\ Continue("download_connect")
    /\ UNCHANGED <<spaces, schedules, crontab, client, cfg, files, target, nextId, xfer>>

DownloadConnect ==
    /\ pc = "download_connect"
    /\ Connect("download_get")
    /\ UNCHANGED <<spaces, schedules, crontab, cfg, files, target, nextId, op, pre, xfer>>

DownloadGet ==
    /\ pc = "download_get"
    /\ \/ /\ \E copy \in {"intact", "damaged"} :
                op' = [op EXCEPT !.transfers = @ + 1, !.copy = copy]
          /\ Continue("download_disconnect")
       \/ /\ op' = op
          /\ Finish("TransportError")
    /\ UNCHANGED <<spaces, schedules, crontab, client, cfg, files, target, nextId, pre, xfer>>

DownloadDisconnect ==
    /\ pc = "download_disconnect"
    /\ client' = "closed"
    /\ IF op.check_hash THEN Continue("download_get_hash") ELSE Finish("ok")
    /\ UNCHANGED <<spaces, schedules, crontab, cfg, files, target, nextId, op, pre, xfer>>

\* the comparison of the digests; a mismatch with a retry left unlinks the
\* target and downloads again with max_retries - 1, one without retry raises
DownloadGetHash ==
    /\ pc = "download_get_hash"
    /\ \E outcome \in SessionOutcomes :
          /\ SessionCall(outcome)
          /\ IF outcome # "returned"
             THEN op' = op /\ Finish("TransportError")
             ELSE IF op.copy = "intact"
             THEN op' = op /\ Finish("ok")
             ELSE IF may_retry(op.retry, op.max_retries)
             THEN /\ op' = [op EXCEPT !.copy = "none", !.max_retries = @ - 1]
                  /\ Continue("download_connect")
             ELSE op' = op /\ Finish("InvalidChecksumError")
    /\ UNCHANGED <<spaces, schedules, crontab, cfg, files, target, nextId, pre, xfer>>

\* Remote.mkdir, Remote.remove and Remote.get_hash called on their own, with
\* the default close_afterwards
RemoteCall(method) ==
    /\ pc = "idle"
    /\ op' = [kind |-> method]
    /\ pre' = [client |-> client]
    /\ \E outcome \in SessionOutcomes :
          /\ SessionCall(outcome)
          /\ Finish(IF outcome = "returned" THEN "ok" ELSE "TransportError")
    /\ UNCHANGED <<spaces, schedules, crontab, cfg, files, target, nextId, xfer>>

\* ---------------------------------------------------------------- Backup.new
\* compress, move into the backup directory, construct, persist the metadata
NewArchiveAndMetadata(location, lock, size, full) ==
    /\ nextId <= (IF cfg.remote THEN MaxCreated ELSE MaxCreatedLocal)
    /\ LET id == nextId
           save_remotely == location \in {"remote", "all"}
       IN /\ local' = Put(local, id, [content |-> ArchiveOf(id), size |-> size])
          /\ meta' = Put(meta, id,
                         [hash |-> sha256sum(id),
                          created_at |-> id,
                          locked |-> lock,
                          full |-> full,
                          remote |-> cfg.remote /\ save_remotely,
                          toml |-> "complete"])
          /\ op' = [kind |-> "new", id |-> id, location |-> location, lock |-> lock,
                    size |-> size,
                    remote |-> cfg.remote /\ save_remotely,
                    file |-> "archive", retries |-> MaxRetries, warned |-> FALSE]
    /\ nextId' = nextId + 1
    /\ pre' = Snapshot
    /\ xfer' = NoXfer
    /\ Continue("new_backup_limit")
    /\ UNCHANGED <<spaces, schedules, crontab, client, cfg, rarch, rmeta, target>>

NewStart(location, lock, size, full) ==
    /\ pc = "idle"
    /\ NewArchiveAndMetadata(location, lock, size, full)

RollbackKeepsMetadata ==
    /\ local' = Remove(local, op.id)
    /\ UNCHANGED <<meta, rarch, rmeta>>

\* moved_path.unlink(missing_ok=True); config.unlink(missing_ok=True)
Rollback ==
    /\ local' = Remove(local, op.id)
    /\ meta' = Remove(meta, op.id)
    /\ UNCHANGED <<rarch, rmeta>>

\* if is_backup_limit_reached(post_creation=True): auto deletion or MemoryError
NewCheckBackupLimit ==
    /\ pc = "new_backup_limit"
    /\ UNCHANGED <<spaces, schedules, crontab, client, cfg, target, nextId, op, pre, xfer>>
    /\ IF is_backup_limit_reached(TRUE)
       THEN IF cfg.auto_deletion
            THEN Continue("auto_deletion") /\ UNCHANGED files
            ELSE Rollback /\ Finish("MemoryError")
       ELSE Continue("new_disk_limit") /\ UNCHANGED files

\* one evaluation of the loop condition of perform_auto_deletion and, when it
\* holds, one pass through the loop body
\* a loop that is left after its first pass
AutoDeletionSinglePass(after) ==
    /\ UNCHANGED <<spaces, schedules, crontab, client, cfg, target, nextId, op, pre, xfer>>
    /\ IF AutoDeletionConditionRaises
       THEN Finish("FileNotFoundError") /\ UNCHANGED files
       ELSE IF AutoDeletionContinues
       THEN IF cfg.auto_deletion_rule \in {"largest", "smallest"} /\ SizeError
            THEN Finish("FileNotFoundError") /\ UNCHANGED files
            ELSE /\ \E victim \in Victims(cfg.auto_deletion_rule), removed \in BOOLEAN :
                        /\ (removed = FALSE => has_remote_archive(victim))
                        /\ BackupDelete(victim, removed)
                 /\ IF after = "done" THEN Finish("ok") ELSE Continue(after)
       ELSE /\ IF after = "done" THEN Finish("ok") ELSE Continue(after)
            /\ UNCHANGED files

AutoDeletionLoop(after) ==
    /\ UNCHANGED <<spaces, schedules, crontab, client, cfg, target, nextId, op, pre, xfer>>
    /\ IF AutoDeletionConditionRaises
       THEN Finish("FileNotFoundError") /\ UNCHANGED files
       ELSE IF AutoDeletionContinues
       THEN IF cfg.auto_deletion_rule \in {"largest", "smallest"} /\ SizeError
            THEN Finish("FileNotFoundError") /\ UNCHANGED files
            ELSE /\ \E victim \in Victims(cfg.auto_deletion_rule), removed \in BOOLEAN :
                        /\ (removed = FALSE => has_remote_archive(victim))
                        /\ BackupDelete(victim, removed)
                 /\ Continue(pc)
       ELSE /\ IF after = "done" THEN Finish("ok") ELSE Continue(after)
            /\ UNCHANGED files

\* BackupSpace.perform_auto_deletion called on its own
perform_auto_deletion ==
    /\ pc = "idle"
    /\ op' = [kind |-> "perform_auto_deletion"]
    /\ pre' = Snapshot
    /\ Continue("perform_auto_deletion")
    /\ UNCHANGED <<spaces, schedules, crontab, client, cfg, files, target, nextId, xfer>>

PerformAutoDeletionLoop ==
    /\ pc = "perform_auto_deletion"
    /\ AutoDeletionLoop("done")

PerformAutoDeletion ==
    /\ pc = "auto_deletion"
    /\ AutoDeletionLoop("new_disk_limit")

\* if is_disk_limit_reached(): roll back and MemoryError; else go on to upload
NewCheckDiskLimit ==
    /\ pc = "new_disk_limit"
    /\ UNCHANGED <<spaces, schedules, crontab, client, cfg, target, nextId, op, pre, xfer>>
    /\ IF DiskCheckRaises
       THEN Finish("FileNotFoundError") /\ UNCHANGED files
       ELSE IF is_disk_limit_reached
       THEN Rollback /\ Finish("MemoryError")
       ELSE /\ UNCHANGED files
            /\ IF op.remote THEN Continue("upload") ELSE Continue("new_finish")

\* a Backup.new that never unlinks the local copy
NewFinishKeepsLocal ==
    /\ pc = "new_finish"
    /\ UNCHANGED <<spaces, schedules, crontab, client, cfg, files, target, nextId, op, pre, xfer>>
    /\ Finish("ok")

\* if not save_locally: unlink the local copy when a remote holds the backup,
\* warn when there is no remote
NewFinish ==
    /\ pc = "new_finish"
    /\ UNCHANGED <<spaces, schedules, crontab, client, cfg, meta, rarch, rmeta, target, nextId, pre, xfer>>
    /\ IF op.location = "remote"
       THEN IF op.remote
            THEN /\ op' = op
                 /\ IF has_local_archive(op.id)
                    THEN local' = Remove(local, op.id) /\ Finish("ok")
                    ELSE UNCHANGED local /\ Finish("FileNotFoundError")
            ELSE /\ op' = [op EXCEPT !.warned = TRUE]
                 /\ UNCHANGED local
                 /\ Finish("ok")
       ELSE /\ op' = op
            /\ UNCHANGED local
            /\ Finish("ok")

\* ------------------------------------------------ the 'backup create' command
\* the space is loaded by uuid or name
create ==
    /\ pc = "idle"
    /\ op' = [kind |-> "create_command"]
    /\ pre' = Snapshot
    /\ xfer' = NoXfer
    /\ Continue("create_backup_limit")
    /\ UNCHANGED <<spaces, schedules, crontab, client, cfg, files, target, nextId>>

\* if space.is_backup_limit_reached(): the sweep, or the error message
CreateCheckBackupLimit ==
    /\ pc = "create_backup_limit"
    /\ UNCHANGED <<spaces, schedules, crontab, client, cfg, files, target, nextId, op, pre, xfer>>
    /\ IF is_backup_limit_reached(FALSE)
       THEN IF cfg.auto_deletion
            THEN Continue("create_auto_deletion")
            ELSE Finish("BackupLimitExceededError")
       ELSE Continue("create_backup")

\* space.perform_auto_deletion, called by the command
CreatePerformAutoDeletion ==
    /\ pc = "create_auto_deletion"
    /\ AutoDeletionLoop("create_backup")

\* space.create_backup: Backup.new, whose exceptions the command prints
CreateBackup(location, lock, size) ==
    /\ pc = "create_backup"
    /\ NewArchiveAndMetadata(location, lock, size, TRUE)

\* --------------------------------------------------- explicit Backup.delete
Delete(i) ==
    /\ pc = "idle"
    /\ i \in DOMAIN meta
    /\ \E removed \in BOOLEAN :
          /\ (removed = FALSE => has_remote_archive(i))
          /\ BackupDelete(i, removed)
          /\ op' = [kind |-> "delete", id |-> i, remote_removed |-> removed]
    /\ pre' = Snapshot
    /\ Finish("ok")
    /\ UNCHANGED <<spaces, schedules, crontab, client, cfg, target, nextId, xfer>>

\* Backup.delete while the remote cannot be reached: the metadata file and the
\* local archive are unlinked, then has_remote_archive asks Remote.exists,
\* outside the try block, and the transport failure leaves delete
DeleteRemoteUnreachable(i) ==
    /\ pc = "idle"
    /\ i \in DOMAIN meta
    /\ meta[i].remote
    /\ meta' = Remove(meta, i)
    /\ local' = Remove(local, i)
    /\ op' = [kind |-> "delete", id |-> i, remote_removed |-> FALSE]
    /\ pre' = Snapshot
    /\ Finish("TransportError")
    /\ UNCHANGED <<spaces, schedules, crontab, client, cfg, rarch, rmeta, target, nextId, xfer>>

\* --------------------------------------------------------- BackupSpace.clear
\* every backup get_backups(check_hash=False) lists is deleted, inside one
\* remote session when a remote is bound; `kept` are the backups whose remote
\* copies could not be removed
Clear ==
    /\ pc = "idle"
    /\ pre' = Snapshot
    /\ UNCHANGED <<spaces, schedules, crontab, client, cfg, target, nextId, xfer>>
    /\ \/ \* the session cannot connect
          /\ cfg.remote
          /\ op' = [kind |-> "clear", kept |-> {}]
          /\ Finish("TransportError")
          /\ UNCHANGED files
       \/ LET listed == get_backups(FALSE, FALSE)
              mirrored == {i \in listed : has_remote_archive(i)}
          IN \E kept \in SUBSET mirrored :
                /\ op' = [kind |-> "clear", kept |-> kept]
                /\ meta' = [i \in DOMAIN meta \ listed |-> meta[i]]
                /\ local' = [i \in DOMAIN local \ listed |-> local[i]]
                /\ rarch' = [i \in DOMAIN rarch \ (mirrored \ kept) |-> rarch[i]]
                /\ rmeta' = rmeta \ (mirrored \ kept)
                /\ Finish("ok")

\* ------------------------------------- Backup.lock / unlock / update_config
\* the dict update_config builds from the fields of the backup that was loaded
\* from the file `stored`, with the flag lock() / unlock() has just set
backup_fields(stored, flag) ==
    [hash |-> stored.hash,
     created_at |-> stored.created_at,
     remote |-> stored.remote,
     full |-> stored.full,
     locked |-> flag]

\* an update_config that writes the flag the file already holds
config_content_keeps_flag(i, flag) ==
    backup_fields(meta[i], meta[i].locked)

config_content(i, flag) ==
    backup_fields(meta[i], flag)

\* a merge in which the destination's value wins for a key both have
merge_destination_wins(destination, source) ==
    [k \in DOMAIN destination \cup DOMAIN source |->
        IF k \in DOMAIN destination THEN destination[k] ELSE source[k]]

\* mergedeep.merge(destination, source) of dicts without nested tables: every
\* key of the source is set in the destination, the other keys stay
merge(destination, source) ==
    [k \in DOMAIN destination \cup DOMAIN source |->
        IF k \in DOMAIN source THEN source[k] ELSE destination[k]]

\* self._locked = flag; update_config(): the merged dict is dumped to
\* <uuid>.toml; a backup with a remote archive then replaces the remote
\* metadata file (Remote.remove raises when there is none to remove)
UpdateConfig(i, flag) ==
    /\ pc = "idle"
    /\ i \in DOMAIN meta
    /\ load_by_uuid(i, FALSE, FALSE) = "ok"
    /\ LET current_content == meta[i]
           content == config_content(i, flag)
       IN meta' = [meta EXCEPT ![i] = merge(merge(Empty, current_content), content)]
    /\ op' = [kind |-> IF flag THEN "lock" ELSE "unlock", id |-> i,
              file |-> "config", retries |-> MaxRetries]
    /\ pre' = Snapshot
    /\ xfer' = NoXfer
    /\ UNCHANGED <<spaces, schedules, crontab, client, cfg, local, rarch, target, nextId>>
    /\ IF has_remote_archive(i)
       THEN IF i \in rmeta
            THEN rmeta' = rmeta \ {i} /\ Continue("upload")
            ELSE UNCHANGED rmeta /\ Finish("TransportError")
       ELSE UNCHANGED rmeta /\ Finish("ok")

\* lock() / unlock() on a Backup object whose backup was deleted since it was
\* loaded: a mutant in which update_config writes the file anew
UpdateConfigOfDeletedRecreates(i, flag) ==
    /\ pc = "idle"
    /\ i < nextId
    /\ i \notin DOMAIN meta
    /\ meta' = Put(meta, i, merge(Empty, [hash |-> sha256sum(i), created_at |-> i,
                                          remote |-> FALSE, full |-> TRUE, locked |-> flag,
                                          toml |-> "complete"]))
    /\ op' = [kind |-> IF flag THEN "lock" ELSE "unlock", id |-> i,
              file |-> "config", retries |-> MaxRetries]
    /\ pre' = Snapshot
    /\ xfer' = NoXfer
    /\ Finish("ok")
    /\ UNCHANGED <<spaces, schedules, crontab, client, cfg, local, rarch, rmeta, target, nextId>>

\* the same call as the program makes it: update_config first reads the file
\* (as_dict: toml.load of the path), which raises; nothing is written
UpdateConfigOfDeleted(i, flag) ==
    /\ pc = "idle"
    /\ i < nextId
    /\ i \notin DOMAIN meta
    /\ op' = [kind |-> IF flag THEN "lock" ELSE "unlock", id |-> i,
              file |-> "config", retries |-> MaxRetries]
    /\ pre' = Snapshot
    /\ xfer' = NoXfer
    /\ Finish("FileNotFoundError")
    /\ UNCHANGED <<spaces, schedules, crontab, client, cfg, files, target, nextId>>

\* a lock() / unlock() that changes the flag
SetLocked(i, flag) ==
    /\ i \in DOMAIN meta
    /\ meta[i].locked # flag
    /\ UpdateConfig(i, flag)

Lock(i) == SetLocked(i, TRUE)

Unlock(i) == SetLocked(i, FALSE)

\* ------------------------------------------------------ Backup.load_by_uuid
LoadByUuid(i, chk, fail_invalid) ==
    /\ pc = "idle"
    /\ i < nextId
    /\ op' = [kind |-> "load", id |-> i, check_hash |-> chk, fail_invalid |-> fail_invalid,
              warned |-> load_by_uuid_warnings(i, chk, fail_invalid)]
    /\ pre' = Snapshot
    /\ Finish(load_by_uuid(i, chk, fail_invalid))
    /\ UNCHANGED <<spaces, schedules, crontab, client, cfg, files, target, nextId, xfer>>

\* --------------------------------------------------------- Backup.check_hash
\* check_hash called on a loaded backup; Remote.get_hash may fail to connect
CheckHash(i, remote) ==
    /\ pc = "idle"
    /\ i \in DOMAIN meta
    /\ load_by_uuid(i, FALSE, FALSE) = "ok"
    /\ pre' = Snapshot
    /\ UNCHANGED <<spaces, schedules, crontab, client, cfg, files, target, nextId, xfer>>
    /\ \/ /\ op' = [kind |-> "check_hash", id |-> i, remote |-> remote,
                     returned |-> check_hash(i, remote)]
          /\ Finish("ok")
       \/ /\ remote /\ has_remote_archive(i)
          /\ op' = [kind |-> "check_hash", id |-> i, remote |-> remote, returned |-> FALSE]
          /\ Finish("TransportError")

\* ------------------------------------------------- BackupSpace.get_backups
\* the listing a caller gets: the backups that load, then the sort, whose key
\* function get_file_size raises for a listed backup without archive
\* the orders in which glob("*.toml") may yield the files of the backups S
GlobOrders(S) ==
    {order \in [1 .. Cardinality(S) -> S] :
        \A a, b \in 1 .. Cardinality(S) : a # b => order[a] # order[b]}

\* the key functions of the two sorts
sort_key(sort_by, i) ==
    IF sort_by = "date" THEN meta[i].created_at ELSE get_file_size(i)

\* list.sort(key=..., reverse=...): stable, elements with equal keys keep the
\* order they had
RECURSIVE list_sort(_, _, _)
list_sort(backups, sort_by, reverse) ==
    IF backups = <<>> THEN <<>>
    ELSE LET n == Len(backups)
             x == backups[n]
             sorted == list_sort(SubSeq(backups, 1, n - 1), sort_by, reverse)
             stays(y) == IF reverse THEN sort_key(sort_by, y) >= sort_key(sort_by, x)
                         ELSE sort_key(sort_by, y) <= sort_key(sort_by, x)
             k == Cardinality({h \in 1 .. Len(sorted) :
                                 \A g \in 1 .. h : stays(sorted[g])})
         IN SubSeq(sorted, 1, k) \o <<x>> \o SubSeq(sorted, k + 1, Len(sorted))

sort_ascending(backups, sort_by) ==
    list_sort(backups, sort_by, FALSE)

\* backups.sort(key=..., reverse=True) of get_backups
sort(backups, sort_by) ==
    list_sort(backups, sort_by, TRUE)

GetBackups(sort_by, chk, unlocked_only) ==
    /\ pc = "idle"
    /\ pre' = Snapshot
    /\ LET listed == get_backups(chk, unlocked_only)
           raises == sort_by = "size" /\ \E i \in listed : ~has_file_size(i)
       IN /\ \E order \in GlobOrders(listed) :
                op' = [kind |-> "get_backups", sort_by |-> sort_by, check_hash |-> chk,
                       unlocked_only |-> unlocked_only, listed |-> listed,
                       backups |-> IF raises THEN <<>>
                                   ELSE IF sort_by = "none" THEN order
                                   ELSE sort(order, sort_by)]
          /\ IF raises THEN Finish("FileNotFoundError") ELSE Finish("ok")
    /\ UNCHANGED <<spaces, schedules, crontab, client, cfg, files, target, nextId, xfer>>

\* ------------------------------------------- FileBackupSpace.restore_backup
\* load the backup (check_hash=False) and require the copy of the source tier
RestoreStart(i, mode, source, force) ==
    /\ pc = "idle"
    /\ i < nextId
    /\ op' = [kind |-> "restore", id |-> i, mode |-> mode, source |-> source,
              force |-> force, compared |-> FALSE, warned |-> FALSE,
              retries |-> MaxRetries, tmp |-> "none"]
    /\ pre' = Snapshot
    /\ xfer' = NoXfer
    /\ UNCHANGED <<spaces, schedules, crontab, client, cfg, files, target, nextId>>
    /\ IF load_by_uuid(i, FALSE, ~force) # "ok"
       THEN Finish(load_by_uuid(i, FALSE, ~force))
       ELSE IF \/ source = "remote" /\ ~has_remote_archive(i)
               \/ source = "local" /\ ~has_local_archive(i)
       THEN Finish("InvalidBackupError")
       ELSE Continue("restore_check_hash")

\* a restore_backup that raises on a mismatch whether forced or not
RestoreCheckHashIgnoresForce ==
    /\ pc = "restore_check_hash"
    /\ UNCHANGED <<spaces, schedules, crontab, client, cfg, files, target, nextId, pre, xfer>>
    /\ LET matches == check_hash(op.id, op.source = "remote") IN
       /\ op' = [op EXCEPT !.compared = TRUE, !.warned = ~matches]
       /\ IF ~matches
          THEN Finish("InvalidChecksumError")
          ELSE Continue("restore_clean")

\* if not backup.check_hash(remote=from_remote): warn when forced, else raise
RestoreCheckHash ==
    /\ pc = "restore_check_hash"
    /\ UNCHANGED <<spaces, schedules, crontab, client, cfg, files, target, nextId, pre, xfer>>
    /\ LET matches == check_hash(op.id, op.source = "remote") IN
       /\ op' = [op EXCEPT !.compared = TRUE, !.warned = ~matches]
       /\ IF ~matches /\ ~op.force
          THEN Finish("InvalidChecksumError")
          ELSE Continue("restore_clean")

\* Backup.is_full_backup: meta[i].full records whether the exclude list is
\* empty and the include list is empty or holds "*"
is_full_backup_whatever_filters(i) ==
    TRUE

is_full_backup(i) ==
    meta[i].full

\* compression.filter_paths(file_path, include, exclude) with the filters of a
\* filtered backup: the files of the target they select. "pre_match" is
\* selected and "pre_other" is not; files that an earlier extraction wrote
\* may or may not be
filter_paths(i) ==
    {selected \in SUBSET target :
        /\ "pre_match" \in target => "pre_match" \in selected
        /\ "pre_other" \notin selected}

\* mode CLEAN: a full backup wipes the target, a filtered one unlinks the files
\* its filters match; then the archive to unpack is determined
RestoreClean ==
    /\ pc = "restore_clean"
    /\ UNCHANGED <<spaces, schedules, crontab, client, cfg, files, nextId, op, pre, xfer>>
    /\ IF op.mode # "CLEAN" THEN target' = target
       ELSE IF is_full_backup(op.id) THEN target' = {}
       ELSE \E selected \in filter_paths(op.id) : target' = target \ selected
    /\ IF op.source = "remote"
       THEN IF has_local_archive(op.id)
            THEN Continue("restore_download")
            ELSE \* backup.get_path() is None
                 Finish("AttributeError")
       ELSE Continue("restore_unpack")

\* one transfer of Remote.download and its digest comparison
RestoreDownload ==
    /\ pc = "restore_download"
    /\ UNCHANGED <<spaces, schedules, crontab, client, cfg, files, target, nextId, pre>>
    /\ \/ \* connection or transfer failure
          /\ xfer' = [fn |-> "download", outcome |-> "raised", match |-> FALSE]
          /\ Finish("TransportError")
          /\ UNCHANGED op
       \/ \* the digests of remote archive and downloaded file are equal
          /\ xfer' = [fn |-> "download", outcome |-> "returned", match |-> TRUE]
          /\ op' = [op EXCEPT !.tmp = rarch[op.id].content]
          /\ Continue("restore_unpack")
       \/ \* they differ and a retry is left: unlink the file, download again
          /\ op.retries > 0
          /\ xfer' = [fn |-> "download", outcome |-> "running", match |-> FALSE]
          /\ op' = [op EXCEPT !.retries = @ - 1]
          /\ Continue("restore_download")
       \/ \* they differ and no retry is left: InvalidChecksumError, which
          \* restore_backup turns into a warning when forced
          /\ op.retries = 0
          /\ xfer' = [fn |-> "download", outcome |-> "raised", match |-> FALSE]
          /\ IF op.force
             THEN /\ op' = [op EXCEPT !.tmp = Damaged(rarch[op.id].content), !.warned = TRUE]
                  /\ Continue("restore_unpack")
             ELSE /\ op' = [op EXCEPT !.tmp = Damaged(rarch[op.id].content)]
                  /\ Finish("InvalidChecksumError")

\* compression.unpack into the target, then the temporary copy is unlinked;
\* shutil.unpack_archive may raise ReadError on an archive whose bytes changed,
\* after extracting some of it or nothing
RestoreUnpack ==
    /\ pc = "restore_unpack"
    /\ UNCHANGED <<spaces, schedules, crontab, client, cfg, files, nextId, pre, xfer>>
    /\ LET archive == IF op.source = "remote" THEN op.tmp ELSE local[op.id].content IN
       \/ /\ target' = target \cup {"restored"}
          /\ op' = [op EXCEPT !.tmp = "none"]
          /\ Finish("ok")
       \/ /\ ~archive.intact
          /\ \E some \in BOOLEAN : target' = IF some THEN target \cup {"partial"} ELSE target
          /\ op' = op
          /\ Finish("ReadError")

\* ------------------------------------------ the file system under the user
\* the bytes of a local archive are changed behind the program's back
CorruptLocal(i) ==
    /\ pc = "idle"
    /\ i \in DOMAIN local
    /\ local[i].content.intact
    /\ local' = [local EXCEPT ![i].content = Damaged(@)]
    /\ onlyCreates' = FALSE
    /\ UNCHANGED <<spaces, schedules, crontab, client, cfg, meta, rarch, rmeta, target, nextId, pc, op, pre, result, xfer>>

\* a <uuid>.toml is overwritten behind the program's back: it loses a key
\* or stops being TOML
TomlDamaged(i, state) ==
    /\ pc = "idle"
    /\ i \in DOMAIN meta
    /\ meta[i].toml = "complete"
    /\ state # "complete"
    /\ meta' = [meta EXCEPT ![i].toml = state]
    /\ onlyCreates' = FALSE
    /\ UNCHANGED <<spaces, schedules, crontab, client, cfg, local, rarch, rmeta, target, nextId, pc, op, pre,
                   result, xfer>>

\* a <uuid>.toml gains a key this version of the program does not know
KeyAdded(i) ==
    /\ pc = "idle"
    /\ i \in DOMAIN meta
    /\ "note" \notin DOMAIN meta[i]
    /\ meta' = [meta EXCEPT ![i] = Put(meta[i], "note", "kept")]
    /\ onlyCreates' = FALSE
    /\ UNCHANGED <<spaces, schedules, crontab, client, cfg, local, rarch, rmeta, target, nextId, pc, op, pre,
                   result, xfer>>

\* the limits section of config.toml is edited between two runs of the
\* program; the next BackupSpace.load_by_uuid reads the new values
LimitsEdited(limits) ==
    /\ pc = "idle"
    /\ limits # cfg
    /\ cfg' = limits
    /\ onlyCreates' = FALSE
    /\ UNCHANGED <<spaces, schedules, crontab, client, files, target, nextId, pc, op, pre,
                   result, xfer>>

\* a local archive is removed behind the program's back
ArchiveLost(i) ==
    /\ pc = "idle"
    /\ i \in DOMAIN local
    /\ local' = Remove(local, i)
    /\ onlyCreates' = FALSE
    /\ UNCHANGED <<spaces, schedules, crontab, client, cfg, meta, rarch, rmeta, target, nextId, pc, op, pre, result, xfer>>

\* ------------------------------------------------ backup spaces of the host
HostSnapshot == [spaces |-> spaces, schedules |-> schedules, crontab |-> crontab]

\* BackupSpace.load_by_name finds a space: some space directory holds a
\* config.toml with that name
load_by_name_finds(name) ==
    \E s \in DOMAIN spaces : spaces[s].dir /\ spaces[s].name = name

\* BackupSpace.new: the directory and config.toml, then the mirror directory
\* on the remote (whose session may fail to connect); the name is not looked up
NewSpace(name, remote) ==
    /\ Cardinality(DOMAIN spaces) < MaxSpaces
    /\ LET s == Cardinality(DOMAIN spaces) + 1 IN
       /\ op' = [kind |-> "space_new", id |-> s, name |-> name]
       /\ \/ /\ spaces' = Put(spaces, s, [name |-> name, remote |-> remote,
                                           dir |-> TRUE, rdir |-> remote])
             /\ Finish("ok")
          \/ /\ remote
             /\ spaces' = Put(spaces, s, [name |-> name, remote |-> remote,
                                           dir |-> TRUE, rdir |-> FALSE])
             /\ Finish("TransportError")

BackupSpaceNew(name, remote) ==
    /\ pc = "idle"
    /\ pre' = HostSnapshot
    /\ NewSpace(name, remote)
    /\ UNCHANGED <<schedules, crontab, client, cfg, files, target, nextId, xfer>>

\* the space-creation command: the name must be free and set, then
\* BackupSpace.new
create_backup_space(name, remote) ==
    /\ pc = "idle"
    /\ pre' = HostSnapshot
    /\ UNCHANGED <<schedules, crontab, client, cfg, files, target, nextId, xfer>>
    /\ IF load_by_name_finds(name)
       THEN /\ op' = [kind |-> "space_command", name |-> name]
            /\ Finish("NameError")
            /\ UNCHANGED spaces
       ELSE IF name = ""
       THEN /\ op' = [kind |-> "space_command", name |-> name]
            /\ Finish("ValueError")
            /\ UNCHANGED spaces
       ELSE NewSpace(name, remote)

\* Schedule.create_from_backup_space: the schedule's <uuid>.toml under a fresh
\* uuid, no cron job
create_from_backup_space(s) ==
    /\ pc = "idle"
    /\ s \in DOMAIN spaces
    /\ spaces[s].dir
    /\ \E k \in 1 .. MaxSchedules : k \notin DOMAIN schedules /\ crontab[k] = 0
    /\ LET j == CHOOSE k \in 1 .. MaxSchedules :
                    k \notin DOMAIN schedules /\ crontab[k] = 0 IN
       /\ schedules' = Put(schedules, j, [backup_space |-> s])
       /\ op' = [kind |-> "schedule_new", id |-> j]
    /\ pre' = HostSnapshot
    /\ Finish("ok")
    /\ UNCHANGED <<spaces, crontab, client, cfg, files, target, nextId, xfer>>

\* Schedule.load_by_uuid loads the schedule's backup space, which raises
\* InvalidBackupSpaceError when the space directory is gone
schedule_loads(sp, j) == sp[schedules[j].backup_space].dir

\* Schedule._get_cronjobs: the number of jobs whose comment is the
\* schedule's uuid and the suffix
get_cronjobs(j) == crontab[j]

\* Schedule.is_active
is_active(j) == get_cronjobs(j) > 0

\* Schedule.activate: cron.new adds a job tagged with the schedule's uuid and
\* writes the crontab, whatever the crontab holds already
activate(j) ==
    /\ pc = "idle"
    /\ j \in DOMAIN schedules
    /\ schedule_loads(spaces, j)
    /\ crontab[j] < MaxJobs
    /\ crontab' = [crontab EXCEPT ![j] = @ + 1]
    /\ op' = [kind |-> "schedule_activate", id |-> j]
    /\ pre' = HostSnapshot
    /\ Finish("ok")
    /\ UNCHANGED <<spaces, schedules, client, cfg, files, target, nextId, xfer>>

\* one pass of the loop of Schedule.deactivate over the jobs _get_cronjobs
\* returned: job.delete() and job.cron.write(); `after` is where control goes
\* when the list is exhausted ("done": the operation returns)
DeactivateOnlyFirstJob(after) ==
    /\ IF op.jobs > 0
       THEN /\ crontab' = [crontab EXCEPT ![op.id] = @ - 1]
            /\ op' = [op EXCEPT !.jobs = 0]
            /\ Continue(pc)
       ELSE /\ UNCHANGED <<crontab, op>>
            /\ IF after = "done" THEN Finish("ok") ELSE Continue(after)
    /\ UNCHANGED <<spaces, schedules, client, cfg, files, target, nextId, pre, xfer>>

DeactivateJobs(after) ==
    /\ IF op.jobs > 0
       THEN /\ crontab' = [crontab EXCEPT ![op.id] = @ - 1]
            /\ op' = [op EXCEPT !.jobs = @ - 1]
            /\ Continue(pc)
       ELSE /\ UNCHANGED <<crontab, op>>
            /\ IF after = "done" THEN Finish("ok") ELSE Continue(after)
    /\ UNCHANGED <<spaces, schedules, client, cfg, files, target, nextId, pre, xfer>>

\* Schedule.deactivate: the jobs are listed, then deleted one by one
deactivate(j) ==
    /\ pc = "idle"
    /\ j \in DOMAIN schedules
    /\ schedule_loads(spaces, j)
    /\ op' = [kind |-> "schedule_deactivate", id |-> j, jobs |-> get_cronjobs(j)]
    /\ pre' = HostSnapshot
    /\ Continue("deactivate")
    /\ UNCHANGED <<spaces, schedules, crontab, client, cfg, files, target, nextId, xfer>>

DeactivateLoop == pc = "deactivate" /\ DeactivateJobs("done")

\* Schedule.delete: deactivate when active, then unlink the <uuid>.toml
ScheduleDeleteUnlinksFirst(j) ==
    /\ pc = "idle"
    /\ j \in DOMAIN schedules
    /\ schedule_loads(spaces, j)
    /\ op' = [kind |-> "schedule_delete", id |-> j, jobs |-> get_cronjobs(j)]
    /\ pre' = HostSnapshot
    /\ schedules' = Remove(schedules, j)
    /\ Continue("delete_deactivate")
    /\ UNCHANGED <<spaces, crontab, client, cfg, files, target, nextId, xfer>>

ScheduleDelete(j) ==
    /\ pc = "idle"
    /\ j \in DOMAIN schedules
    /\ schedule_loads(spaces, j)
    /\ op' = [kind |-> "schedule_delete", id |-> j, jobs |-> get_cronjobs(j)]
    /\ pre' = HostSnapshot
    /\ Continue(IF is_active(j) THEN "delete_deactivate" ELSE "delete_unlink")
    /\ UNCHANGED <<spaces, schedules, crontab, client, cfg, files, target, nextId, xfer>>

ScheduleDeleteDeactivate == pc = "delete_deactivate" /\ DeactivateJobs("delete_unlink")

ScheduleDeleteUnlink ==
    /\ pc = "delete_unlink"
    /\ schedules' = Remove(schedules, op.id)
    /\ Finish("ok")
    /\ UNCHANGED <<spaces, crontab, client, cfg, files, target, nextId, op, pre, xfer>>

\* Schedule.get_schedules catches InvalidScheduleError only: one schedule whose
\* space does not load makes it raise
get_schedules_raises(sp) == \E j \in DOMAIN schedules : ~schedule_loads(sp, j)

\* Schedule.load_by_backup_space
load_by_backup_space(s) == {j \in DOMAIN schedules : schedules[j].backup_space = s}

\* BackupSpace.delete: rmtree of the space directory, then the schedules of
\* the space are loaded and deleted, then the remote mirror is removed
BackupSpaceDelete(s) ==
    /\ pc = "idle"
    /\ s \in DOMAIN spaces
    /\ spaces[s].dir
    /\ op' = [kind |-> "space_delete", id |-> s]
    /\ pre' = HostSnapshot
    /\ UNCHANGED <<client, cfg, files, target, nextId, xfer>>
    /\ LET removed == [spaces EXCEPT ![s].dir = FALSE] IN
       IF get_schedules_raises(removed)
       THEN /\ spaces' = removed
            /\ UNCHANGED <<schedules, crontab>>
            /\ Finish("InvalidBackupSpaceError")
       ELSE /\ schedules' = [j \in DOMAIN schedules \ load_by_backup_space(s) |-> schedules[j]]
            /\ crontab' = [j \in 1 .. MaxSchedules |->
                              IF j \in load_by_backup_space(s) THEN 0 ELSE crontab[j]]
            /\ IF spaces[s].remote
               THEN \/ \* removed, or FileNotFoundError, which is passed over
                       /\ spaces' = [removed EXCEPT ![s].rdir = FALSE]
                       /\ Finish("ok")
                    \/ \* the session cannot connect
                       /\ spaces' = removed
                       /\ Finish("TransportError")
               ELSE /\ spaces' = removed
                    /\ Finish("ok")

Next ==
    \/ \E location \in Locations, lock \in BOOLEAN, size \in Sizes :
          NewStart(location, lock, size, TRUE)
    \/ NewCheckBackupLimit
    \/ PerformAutoDeletion
    \/ NewCheckDiskLimit
    \/ RemoteUpload
    \/ NewFinish
    \/ \E i \in Ids : Delete(i)
    \/ Return

Spec == Init /\ [][Next]_vars

\* the same program on a file system that can lose archive files
NextEnv ==
    \/ Next
    \/ \E i \in Ids : Lock(i)
    \/ \E i \in Ids : Unlock(i)
    \/ \E i \in Ids, chk \in BOOLEAN, fail_invalid \in BOOLEAN : LoadByUuid(i, chk, fail_invalid)
    \/ \E i \in Ids : CorruptLocal(i)
    \/ \E i \in Ids : ArchiveLost(i)

SpecEnv == Init /\ [][NextEnv]_vars

\* the create path and Backup.delete with a remote that may be out of reach
NextDelete ==
    \/ Next
    \/ \E i \in Ids : DeleteRemoteUnreachable(i)

SpecDelete == Init /\ [][NextDelete]_vars

\* a space with a backup limit, used through create_backup, Backup.delete,
\* lock, unlock and clear
InitCalls ==
    /\ Init
    /\ cfg.max_backups # Unlimited
    /\ cfg.max_size = Unlimited

NextCalls ==
    \/ \E location \in Locations, size \in Sizes : NewStart(location, FALSE, size, TRUE)
    \/ NewCheckBackupLimit
    \/ PerformAutoDeletion
    \/ NewCheckDiskLimit
    \/ RemoteUpload
    \/ NewFinish
    \/ \E i \in Ids : Delete(i)
    \/ \E i \in Ids : Lock(i)
    \/ \E i \in Ids : Unlock(i)
    \/ Clear
    \/ Return

SpecCalls == InitCalls /\ [][NextCalls]_vars

\* backups created through the 'backup create' command
NextCommand ==
    \/ create
    \/ CreateCheckBackupLimit
    \/ CreatePerformAutoDeletion
    \/ \E location \in Locations, lock \in BOOLEAN, size \in Sizes :
          CreateBackup(location, lock, size)
    \/ NewCheckBackupLimit
    \/ PerformAutoDeletion
    \/ NewCheckDiskLimit
    \/ RemoteUpload
    \/ NewFinish
    \/ Return

SpecCommand == Init /\ [][NextCommand]_vars

\* restoring: a space without limits whose backups are created with and
\* without filters, damaged on disk and restored in every mode
InitRestore ==
    /\ Init
    /\ cfg.max_backups = Unlimited
    /\ cfg.max_size = Unlimited
    /\ ~cfg.auto_deletion

\* create_backup of an unlocked backup, with or without filters
NewStartToRestore(location, full) ==
    /\ nextId <= MaxRestoreCreated
    /\ NewStart(location, FALSE, 1, full)

NextRestore ==
    \/ \E location \in Locations, full \in BOOLEAN : NewStartToRestore(location, full)
    \/ NewCheckBackupLimit
    \/ NewCheckDiskLimit
    \/ RemoteUpload
    \/ NewFinish
    \/ \E i \in Ids : CorruptLocal(i)
    \/ \E i \in Ids, mode \in RestoreModes, source \in Sources, force \in BOOLEAN :
          RestoreStart(i, mode, source, force)
    \/ RestoreCheckHash
    \/ RestoreClean
    \/ RestoreDownload
    \/ RestoreUnpack
    \/ Return

SpecRestore == InitRestore /\ [][NextRestore]_vars

\* listing: a space without limits whose backup directory is edited by hand
NextListing ==
    \/ \E location \in Locations, size \in Sizes : NewStart(location, FALSE, size, TRUE)
    \/ NewCheckBackupLimit
    \/ NewCheckDiskLimit
    \/ RemoteUpload
    \/ NewFinish
    \/ \E i \in Ids, state \in TomlStates : TomlDamaged(i, state)
    \/ \E i \in Ids : ArchiveLost(i)
    \/ \E sort_by \in SortBys, chk \in BOOLEAN : GetBackups(sort_by, chk, FALSE)
    \/ Return

SpecListing == InitRestore /\ [][NextListing]_vars

\* the eviction sweep, inside Backup.new and called on its own, on a space
\* whose limits change between runs
NewStartToSweep(location, lock, size) ==
    /\ nextId <= MaxSweepCreated
    /\ NewStart(location, lock, size, TRUE)

NextSweep ==
    \/ \E location \in Locations, lock \in BOOLEAN, size \in Sizes :
          NewStartToSweep(location, lock, size)
    \/ NewCheckBackupLimit
    \/ PerformAutoDeletion
    \/ NewCheckDiskLimit
    \/ NewFinish
    \/ \E limits \in SweepConfigs : LimitsEdited(limits)
    \/ perform_auto_deletion
    \/ PerformAutoDeletionLoop
    \/ Return

SpecSweep == InitWith(SweepConfigs) /\ [][NextSweep]_vars /\ WF_vars(NextSweep)

\* listing of a space with locked and unlocked backups of different sizes
NextSorting ==
    \/ \E location \in Locations, lock \in BOOLEAN, size \in Sizes :
          NewStart(location, lock, size, TRUE)
    \/ NewCheckBackupLimit
    \/ NewCheckDiskLimit
    \/ RemoteUpload
    \/ NewFinish
    \/ \E i \in Ids : Delete(i)
    \/ \E sort_by \in SortBys, unlocked_only \in BOOLEAN :
          GetBackups(sort_by, TRUE, unlocked_only)
    \/ Return

SpecSorting == InitRestore /\ [][NextSorting]_vars

\* the backup spaces and schedules of the host; no backup is created
InitHost ==
    /\ Init
    /\ cfg.max_backups = Unlimited
    /\ cfg.max_size = Unlimited
    /\ ~cfg.auto_deletion
    /\ ~cfg.remote

NextHost ==
    \/ \E name \in SpaceNames, remote \in BOOLEAN : BackupSpaceNew(name, remote)
    \/ \E name \in SpaceNames, remote \in BOOLEAN : create_backup_space(name, remote)
    \/ \E s \in 1 .. MaxSpaces : create_from_backup_space(s)
    \/ \E j \in 1 .. MaxSchedules : activate(j)
    \/ \E j \in 1 .. MaxSchedules : deactivate(j)
    \/ DeactivateLoop
    \/ \E j \in 1 .. MaxSchedules : ScheduleDelete(j)
    \/ ScheduleDeleteDeactivate
    \/ ScheduleDeleteUnlink
    \/ \E s \in 1 .. MaxSpaces : BackupSpaceDelete(s)
    \/ Return

SpecHost == InitHost /\ [][NextHost]_vars

\* the schedules of spaces without remote: creation, activation, deactivation
\* and deletion, and the deletion of their space
NextSchedule ==
    \/ BackupSpaceNew("docs", FALSE)
    \/ \E s \in 1 .. MaxSpaces : create_from_backup_space(s)
    \/ \E j \in 1 .. MaxSchedules : activate(j)
    \/ \E j \in 1 .. MaxSchedules : deactivate(j)
    \/ DeactivateLoop
    \/ \E j \in 1 .. MaxSchedules : ScheduleDelete(j)
    \/ ScheduleDeleteDeactivate
    \/ ScheduleDeleteUnlink
    \/ \E s \in 1 .. MaxSpaces : BackupSpaceDelete(s)
    \/ Return

SpecSchedule == InitHost /\ [][NextSchedule]_vars

\* creation and deletion on spaces of every compression algorithm
NextCompression ==
    \/ \E location \in Locations : NewStart(location, FALSE, 1, TRUE)
    \/ NewCheckBackupLimit
    \/ PerformAutoDeletion
    \/ NewCheckDiskLimit
    \/ RemoteUpload
    \/ NewFinish
    \/ \E i \in Ids : Delete(i)
    \/ Return

SpecCompression == InitWith(CompressionConfigs) /\ [][NextCompression]_vars

\* the methods of one Remote, called one after the other; a call that was
\* started runs on to its return or raise
NextRemote ==
    \/ \E chk \in BOOLEAN, retry \in BOOLEAN, max_retries \in 0 .. MaxRetriesArg :
          Upload(chk, retry, max_retries)
    \/ UploadConnect
    \/ UploadPut
    \/ UploadDisconnect
    \/ UploadGetHash
    \/ UploadRemove
    \/ \E chk \in BOOLEAN, retry \in BOOLEAN, max_retries \in 0 .. MaxRetriesArg :
          Download(chk, retry, max_retries)
    \/ DownloadConnect
    \/ DownloadGet
    \/ DownloadDisconnect
    \/ DownloadGetHash
    \/ \E method \in {"mkdir", "remove", "get_hash"} : RemoteCall(method)
    \/ Return

SpecRemote == InitHost /\ [][NextRemote]_vars /\ WF_vars(NextRemote)

\* spaces with every backup limit and no size limit, without remote
LimitConfigs ==
    [max_backups : {Unlimited} \cup (0 .. MaxBackupsLimit),
     max_size : {Unlimited},
     auto_deletion : BOOLEAN,
     auto_deletion_rule : {"oldest"},
     remote : {FALSE},
     compression_algorithm : {"zip"}]

\* both callers of is_backup_limit_reached: the create command (before the
\* archive exists) and Backup.new (after it was written), called directly too
NextLimit ==
    \/ create
    \/ CreateCheckBackupLimit
    \/ CreatePerformAutoDeletion
    \/ \E lock \in BOOLEAN : CreateBackup("local", lock, 1)
    \/ \E lock \in BOOLEAN : NewStart("local", lock, 1, TRUE)
    \/ NewCheckBackupLimit
    \/ PerformAutoDeletion
    \/ NewCheckDiskLimit
    \/ NewFinish
    \/ \E i \in Ids : Delete(i)
    \/ Return

SpecLimit == InitWith(LimitConfigs) /\ [][NextLimit]_vars

\* Backup.check_hash of either tier on backups of every location, whose local
\* archives may be damaged or lost
NextCheckHash ==
    \/ \E location \in Locations : NewStart(location, FALSE, 1, TRUE)
    \/ NewCheckBackupLimit
    \/ NewCheckDiskLimit
    \/ RemoteUpload
    \/ NewFinish
    \/ \E i \in Ids : CorruptLocal(i)
    \/ \E i \in Ids : ArchiveLost(i)
    \/ \E i \in Ids, remote \in BOOLEAN : CheckHash(i, remote)
    \/ Return

SpecCheckHash == InitRestore /\ [][NextCheckHash]_vars

\* Backup.load_by_uuid on backups of every location whose archives and
\* metadata files are damaged or removed behind the program's back
NextLoad ==
    \/ \E location \in Locations : NewStart(location, FALSE, 1, TRUE)
    \/ NewCheckBackupLimit
    \/ NewCheckDiskLimit
    \/ RemoteUpload
    \/ NewFinish
    \/ \E i \in Ids : Delete(i)
    \/ \E i \in Ids : CorruptLocal(i)
    \/ \E i \in Ids : ArchiveLost(i)
    \/ \E i \in Ids : TomlDamaged(i, "unparsable")
    \/ \E i \in Ids, chk \in BOOLEAN, fail_invalid \in BOOLEAN : LoadByUuid(i, chk, fail_invalid)
    \/ Return

SpecLoad == InitRestore /\ [][NextLoad]_vars

\* the metadata file of a backup: written by Backup.new, rewritten by lock()
\* and unlock() in any order, extended by hand with a key the program does
\* not know, or left without its comment
NextMetadata ==
    \/ \E location \in Locations, full \in BOOLEAN : NewStartToRestore(location, full)
    \/ NewCheckBackupLimit
    \/ NewCheckDiskLimit
    \/ RemoteUpload
    \/ NewFinish
    \/ \E i \in Ids : KeyAdded(i)
    \/ \E i \in Ids : TomlDamaged(i, "no_comment")
    \/ \E i \in Ids, flag \in BOOLEAN : UpdateConfig(i, flag)
    \/ Return

SpecMetadata == InitRestore /\ [][NextMetadata]_vars

\* spaces without limit or with max_backups 1, with and without remote
LifecycleConfigs ==
    [max_backups : {Unlimited, 1},
     max_size : {Unlimited},
     auto_deletion : BOOLEAN,
     auto_deletion_rule : {"oldest"},
     remote : BOOLEAN,
     compression_algorithm : {"zip"}]

\* the life of a backup: created, locked and unlocked, restored, deleted by
\* delete(), by the sweep or by clear, and used again after its deletion
NextLifecycle ==
    \/ \E location \in Locations : NewStartToSweep(location, FALSE, 1)
    \/ NewCheckBackupLimit
    \/ PerformAutoDeletion
    \/ NewCheckDiskLimit
    \/ RemoteUpload
    \/ NewFinish
    \/ \E i \in Ids : Delete(i)
    \/ \E i \in Ids, flag \in BOOLEAN : UpdateConfig(i, flag)
    \/ \E i \in Ids, flag \in BOOLEAN : UpdateConfigOfDeleted(i, flag)
    \/ perform_auto_deletion
    \/ PerformAutoDeletionLoop
    \/ Clear
    \/ \E i \in Ids, source \in Sources : RestoreStart(i, "OVERWRITE", source, FALSE)
    \/ RestoreCheckHash
    \/ RestoreClean
    \/ RestoreDownload
    \/ RestoreUnpack
    \/ Return

SpecLifecycle == InitWith(LifecycleConfigs) /\ [][NextLifecycle]_vars

\* spaces with hard limits: auto deletion is off, so Backup.new never sweeps
HardLimitConfigs ==
    [max_backups : {Unlimited} \cup (0 .. MaxBackupsLimit),
     max_size : {Unlimited, MaxSizeLimit},
     auto_deletion : {FALSE},
     auto_deletion_rule : {"oldest"},
     remote : BOOLEAN,
     compression_algorithm : {"zip"}]

NextHardLimit ==
    \/ \E location \in Locations, size \in Sizes : NewStart(location, FALSE, size, TRUE)
    \/ NewCheckBackupLimit
    \/ NewCheckDiskLimit
    \/ RemoteUpload
    \/ NewFinish
    \/ \E i \in Ids : Delete(i)
    \/ Return

SpecHardLimit == InitWith(HardLimitConfigs) /\ [][NextHardLimit]_vars

\* a space with a backup limit and no size limit, used through create_backup
\* with archives of one size, Backup.delete, lock, unlock and clear
NextCount ==
    \/ \E location \in Locations : NewStart(location, FALSE, 1, TRUE)
    \/ NewCheckBackupLimit
    \/ PerformAutoDeletion
    \/ NewCheckDiskLimit
    \/ RemoteUpload
    \/ NewFinish
    \/ \E i \in Ids : Delete(i)
    \/ \E i \in Ids : Lock(i)
    \/ \E i \in Ids : Unlock(i)
    \/ Clear
    \/ Return

SpecCount == InitCalls /\ [][NextCount]_vars

\* ------------------------------------ two create_backup calls on one space
\* two processes run Backup.new on the same backup directory, without remote;
\* in this specification pc, op and result hold one entry per process
Procs == {1, 2}

RaceConfigs ==
    {c \in [max_backups : {Unlimited} \cup (0 .. MaxBackupsLimit),
            max_size : {Unlimited},
            auto_deletion : BOOLEAN,
            auto_deletion_rule : {"oldest", "newest"},
            remote : {FALSE},
            compression_algorithm : {"zip"}] :
        ~c.auto_deletion => c.auto_deletion_rule = "oldest"}

InitRace ==
    /\ cfg \in RaceConfigs
    /\ meta = Empty
    /\ local = Empty
    /\ rarch = Empty
    /\ rmeta = {}
    /\ target = {"pre_match", "pre_other"}
    /\ nextId = 1
    /\ pc = [p \in Procs |-> "idle"]
    /\ op = [p \in Procs |-> NoOp]
    /\ pre = NoPre
    /\ result = [p \in Procs |-> NoResult]
    /\ xfer = NoXfer
    /\ onlyCreates = TRUE
    /\ spaces = Empty
    /\ schedules = Empty
    /\ crontab = [j \in 1 .. MaxSchedules |-> 0]
    /\ client = "none"

RaceGoto(p, next) ==
    /\ pc' = [pc EXCEPT ![p] = next]
    /\ UNCHANGED result

RaceEnds(p, status) ==
    /\ pc' = [pc EXCEPT ![p] = "done"]
    /\ result' = [result EXCEPT ![p] = [status |-> status]]

\* uuid4, localnow, compress and move: the archive is in the backup directory;
\* `overlapped` notes that the other call is under way
RaceArchive(p) ==
    /\ pc[p] = "idle"
    /\ local' = Put(local, p, [content |-> ArchiveOf(p), size |-> 1])
    /\ op' = [op EXCEPT ![p] = [kind |-> "new", id |-> p, created_at |-> nextId, victim |-> 0,
                                overlapped |-> \E q \in Procs \ {p} :
                                                  pc[q] \notin {"idle", "done"}]]
    /\ nextId' = nextId + 1
    /\ RaceGoto(p, "persist")
    /\ UNCHANGED <<spaces, schedules, crontab, client, cfg, meta, rarch, rmeta, target, pre, xfer,
                   onlyCreates>>

\* cls._config.create(); cls.update_config(): the metadata file is written
RacePersist(p) ==
    /\ pc[p] = "persist"
    /\ meta' = Put(meta, p, [hash |-> sha256sum(p), created_at |-> op[p].created_at,
                             locked |-> FALSE, full |-> TRUE, remote |-> FALSE,
                             toml |-> "complete"])
    /\ RaceGoto(p, "backup_limit")
    /\ UNCHANGED <<spaces, schedules, crontab, client, cfg, local, rarch, rmeta, target, nextId, op,
                   pre, xfer, onlyCreates>>

\* if is_backup_limit_reached(post_creation=True): one listing of the
\* directory; without a size limit and without remote the call then returns
RaceCheckBackupLimit(p) ==
    /\ pc[p] = "backup_limit"
    /\ IF is_backup_limit_reached(TRUE)
       THEN IF cfg.auto_deletion THEN RaceGoto(p, "sweep") ELSE RaceGoto(p, "rollback")
       ELSE RaceEnds(p, "ok")
    /\ UNCHANGED <<spaces, schedules, crontab, client, cfg, files, target, nextId, op, pre, xfer,
                   onlyCreates>>

\* a rollback that leaves the metadata file
RaceRollbackKeepsMetadata(p) ==
    /\ pc[p] = "rollback"
    /\ local' = Remove(local, p)
    /\ RaceEnds(p, "MemoryError")
    /\ UNCHANGED <<spaces, schedules, crontab, client, cfg, meta, rarch, rmeta, target, nextId, op,
                   pre, xfer, onlyCreates>>

\* moved_path.unlink(missing_ok=True); config.unlink(missing_ok=True); raise
RaceRollback(p) ==
    /\ pc[p] = "rollback"
    /\ local' = Remove(local, p)
    /\ meta' = Remove(meta, p)
    /\ RaceEnds(p, "MemoryError")
    /\ UNCHANGED <<spaces, schedules, crontab, client, cfg, rarch, rmeta, target, nextId, op, pre,
                   xfer, onlyCreates>>

\* the loop condition of perform_auto_deletion and the choice of the victim
RaceSweepCondition(p) ==
    /\ pc[p] = "sweep"
    /\ IF AutoDeletionContinues
       THEN /\ \E victim \in Victims(cfg.auto_deletion_rule) :
                  op' = [op EXCEPT ![p].victim = victim]
            /\ RaceGoto(p, "sweep_delete")
       ELSE /\ op' = op
            /\ RaceEnds(p, "ok")
    /\ UNCHANGED <<spaces, schedules, crontab, client, cfg, files, target, nextId, pre, xfer,
                   onlyCreates>>

\* backup.delete(): unlinking a metadata file the other call has removed raises
RaceSweepDelete(p) ==
    /\ pc[p] = "sweep_delete"
    /\ IF op[p].victim \in DOMAIN meta
       THEN /\ BackupDelete(op[p].victim, TRUE)
            /\ RaceGoto(p, "sweep")
       ELSE /\ UNCHANGED files
            /\ RaceEnds(p, "FileNotFoundError")
    /\ UNCHANGED <<spaces, schedules, crontab, client, cfg, target, nextId, op, pre, xfer,
                   onlyCreates>>

NextRace ==
    \/ \E p \in Procs : RaceArchive(p)
    \/ \E p \in Procs : RacePersist(p)
    \/ \E p \in Procs : RaceCheckBackupLimit(p)
    \/ \E p \in Procs : RaceRollback(p)
    \/ \E p \in Procs : RaceSweepCondition(p)
    \/ \E p \in Procs : RaceSweepDelete(p)

SpecRace == InitRace /\ [][NextRace]_vars

\* ==================================================================== claims
NewEnded == pc = "done" /\ op.kind = "new"

NewReturned == NewEnded /\ result.status = "ok"

\* the most recently created n backups
Newest(n) == (nextId - n) .. (nextId - 1)

\* C1: with max_backups = N >= 1, auto deletion on with rule "oldest" and no
\* locked backup, after N+k creations (k > 0) in a row exactly the N most
\* recently created backups are present.
C1_RetentionKeepsNewestN ==
    (/\ pc = "idle"
     /\ onlyCreates
     /\ cfg.auto_deletion
     /\ cfg.auto_deletion_rule = "oldest"
     /\ cfg.max_backups >= 1
     /\ cfg.max_size = Unlimited
     /\ nextId - 1 > cfg.max_backups)
    => DOMAIN meta = Newest(cfg.max_backups)

\* C2: every backup the eviction sweep removes is unlocked when it is removed.
C2_EvictionSparesLocked ==
    [][pc = "auto_deletion" => \A i \in DOMAIN meta \ DOMAIN meta' : ~meta[i].locked]_vars

\* the space held max_backups backups, all of them locked, when create started
AllLockedAtLimit ==
    /\ cfg.max_backups # Unlimited
    /\ Cardinality(DOMAIN pre.meta) = cfg.max_backups
    /\ \A i \in DOMAIN pre.meta : pre.meta[i].locked

\* the files of the failed attempt are gone and the others are as before
RolledBack ==
    /\ op.id \notin DOMAIN meta
    /\ op.id \notin DOMAIN local
    /\ op.id \notin DOMAIN rarch
    /\ op.id \notin rmeta
    /\ meta = pre.meta
    /\ local = pre.local
    /\ rarch = pre.rarch
    /\ rmeta = pre.rmeta

\* C3: when all existing backups are locked and the space is at its backup
\* limit, create_backup raises the capacity error, the locked backups are all
\* still there and the attempt's archive and metadata are removed, with auto
\* deletion on or off.
C3_LockedSpaceRejectsCreate ==
    (NewEnded /\ AllLockedAtLimit)
    => (result.status = "MemoryError" /\ RolledBack)

\* disk usage of the space as it was when the operation started
PreFileSize(i) ==
    IF i \in DOMAIN pre.local THEN pre.local[i].size ELSE pre.rarch[i].size

PreDiskUsage ==
    SumOver([i \in DOMAIN pre.meta |-> PreFileSize(i)], DOMAIN pre.meta)

WouldExceed ==
    \/ cfg.max_backups # Unlimited /\ Cardinality(DOMAIN pre.meta) + 1 > cfg.max_backups
    \/ cfg.max_size # Unlimited /\ PreDiskUsage + op.size > cfg.max_size

C5_ZeroCopyLoadRaises ==
    (/\ pc = "done"
     /\ op.kind = "load"
     /\ op.id \in DOMAIN meta
     /\ ~has_local_archive(op.id)
     /\ ~has_remote_archive(op.id))
    => result.status = "InvalidBackupError"

\* C6: restore_backup changes no file of the target before the digest of the
\* copy in the requested source tier was compared with the persisted digest,
\* and when they differ without force it raises InvalidChecksumError and the
\* target is as it was.
SourceDigestDiffers ==
    IF op.source = "remote"
    THEN remote_get_hash(op.id) # meta[op.id].hash
    ELSE calculate_hash(op.id) # meta[op.id].hash

C6_RestoreComparesBeforeTouching ==
    /\ (op.kind = "restore" /\ target # pre.target) => op.compared
    /\ (/\ op.kind = "restore"
        /\ op.compared
        /\ ~op.force
        /\ SourceDigestDiffers)
       => (pc = "done" /\ result.status = "InvalidChecksumError" /\ target = pre.target)

C6_Witness ==
    /\ pc = "done"
    /\ op.kind = "restore"
    /\ op.mode = "CLEAN"
    /\ op.compared
    /\ ~op.force
    /\ result.status = "InvalidChecksumError"
    /\ target # {}

\* C7: Remote.upload and Remote.download do not return normally when the
\* digests still differ after the last retry.
C7_ExhaustedRetriesRaise ==
    (xfer.fn \in {"upload", "download"} /\ xfer.outcome = "returned") => xfer.match

\* a copy of the backup exists whose digest is the persisted one
HasVerifiedCopy(i) ==
    /\ i \in DOMAIN meta
    /\ \/ has_local_archive(i) /\ calculate_hash(i) = meta[i].hash
       \/ has_remote_archive(i) /\ remote_get_hash(i) = meta[i].hash

\* C8: when Backup.new returns normally, a local or remote archive of the new
\* backup exists whose digest equals the persisted digest.
C8_NewLeavesVerifiedCopy ==
    NewReturned => HasVerifiedCopy(op.id)

\* C9: with auto deletion active, the backup Backup.new returns still has its
\* metadata file and archive and is listed by get_backups.
C9_EvictionSparesNewBackup ==
    (NewReturned /\ cfg.auto_deletion)
    => /\ op.id \in DOMAIN meta
       /\ has_file_size(op.id)
       /\ op.id \in get_backups(TRUE, FALSE)

\* C10: with auto deletion active, a creation that reaches the disk limit does
\* not end with the new backup deleted and the capacity error raised.
C10_DiskLimitEvictsWhenAutoDeletion ==
    (NewEnded /\ cfg.auto_deletion) => result.status # "MemoryError"

\* C11: when the remote operations of Backup.delete fail, delete still returns
\* normally, the local metadata file and the local archive are removed, and
\* the backup no longer loads.
C11_DeleteSurvivesRemoteFailure ==
    (pc = "done" /\ op.kind = "delete" /\ ~op.remote_removed)
    => /\ result.status = "ok"
       /\ op.id \notin DOMAIN meta
       /\ op.id \notin DOMAIN local
       /\ load_by_uuid(op.id, TRUE, FALSE) = "InvalidBackupError"

\* Backup.new ended because one of its two Remote.upload calls raised
UploadFailedInNew ==
    /\ NewEnded
    /\ result.status # "ok"
    /\ xfer.fn = "upload"
    /\ xfer.outcome = "raised"

\* C12: when the upload fails during Backup.new with location 'all' or
\* 'local', the local archive and the metadata file of the new backup exist,
\* the persisted digest is the digest of the local archive, and the backup
\* loads through load_by_uuid.
C12_FailedUploadLeavesLocalBackup ==
    (UploadFailedInNew /\ op.location \in {"all", "local"})
    => /\ op.id \in DOMAIN meta
       /\ has_local_archive(op.id)
       /\ calculate_hash(op.id) = meta[op.id].hash
       /\ load_by_uuid(op.id, TRUE, FALSE) = "ok"

\* C13: BackupSpace.delete on a space with a bound remote and at least one
\* schedule referencing it completes with the space directory removed, the
\* remote mirror removed and every schedule of the space deleted.
C13_SpaceDeleteCascades ==
    (/\ pc = "done"
     /\ op.kind = "space_delete"
     /\ pre.spaces[op.id].remote
     /\ \E j \in DOMAIN pre.schedules : pre.schedules[j].backup_space = op.id)
    => /\ result.status = "ok"
       /\ ~spaces[op.id].dir
       /\ ~spaces[op.id].rdir
       /\ \A j \in DOMAIN schedules : schedules[j].backup_space # op.id

\* C20: the names of the existing backup spaces are pairwise distinct.
C20_SpaceNamesUnique ==
    \A s, t \in DOMAIN spaces :
        (s # t /\ spaces[s].dir /\ spaces[t].dir) => spaces[s].name # spaces[t].name

\* the steps that consult a retention limit or evict
LimitSteps ==
    {"new_backup_limit", "auto_deletion", "new_disk_limit",
     "create_backup_limit", "create_auto_deletion"}

\* C14: no step of a backup creation checks a retention limit or evicts
\* before the archive of the new backup was made and its metadata persisted,
\* also when the creation is started by the 'backup create' command.
C14_ArchiveBeforeLimits ==
    pc \in LimitSteps => (op.kind = "new" /\ op.id < nextId)

DeletedRemoteOnly ==
    /\ pc = "done"
    /\ op.kind = "delete"
    /\ pre.meta[op.id].remote
    /\ op.id \notin DOMAIN pre.local
    /\ op.id \in DOMAIN pre.rarch

\* C16: when Backup.new with location 'remote' returns on a space with a bound
\* remote, no local archive of the backup is left while the remote archive and
\* the local metadata file exist; a later delete of such a backup, with the
\* remote answering, returns and removes remote archive, remote metadata and
\* local metadata.
C16_RemoteOnlyCreateAndDelete ==
    /\ (NewReturned /\ op.location = "remote" /\ cfg.remote)
       => /\ ~has_local_archive(op.id)
          /\ op.id \in DOMAIN rarch
          /\ op.id \in DOMAIN meta
    /\ (DeletedRemoteOnly /\ op.remote_removed)
       => /\ result.status = "ok"
          /\ op.id \notin DOMAIN rarch
          /\ op.id \notin rmeta
          /\ op.id \notin DOMAIN meta

C16_Witness ==
    /\ DeletedRemoteOnly
    /\ op.remote_removed
    /\ op.id \in pre.rmeta
    /\ result.status = "ok"

\* Backup.new was asked for a remote-only backup on a space without remote
RemoteWithoutRemote == NewEnded /\ op.location = "remote" /\ ~cfg.remote

\* the new backup is kept in the backup directory and nothing was done remotely
KeptLocally ==
    /\ result.status = "ok"
    /\ op.warned
    /\ rarch = pre.rarch
    /\ rmeta = pre.rmeta
    /\ op.id \in DOMAIN meta
    /\ has_local_archive(op.id)
    /\ ~has_remote_archive(op.id)
    /\ load_by_uuid(op.id, TRUE, TRUE) = "ok"

\* the space is at one of its limits once the new backup is counted
LimitReachedByCreation ==
    \/ cfg.max_backups # Unlimited /\ Cardinality(DOMAIN pre.meta) >= cfg.max_backups
    \/ cfg.max_size # Unlimited /\ PreDiskUsage + op.size >= cfg.max_size

\* C17: Backup.new with location 'remote' on a space without bound remote
\* does not raise, warns, does nothing remotely and keeps archive and metadata
\* locally, where the backup loads.
C17_NoRemoteFallsBackToLocal ==
    RemoteWithoutRemote => KeptLocally

\* the fallback of C17 for a creation that leaves the space below its limits
NoRemoteFallsBackBelowLimits ==
    (RemoteWithoutRemote /\ ~LimitReachedByCreation) => KeptLocally

\* a forced restore_backup ended whose source copy does not have the
\* persisted digest
ForcedMismatch ==
    /\ pc = "done"
    /\ op.kind = "restore"
    /\ op.force
    /\ op.compared
    /\ SourceDigestDiffers

OneCorruptToml(j) ==
    /\ j \in DOMAIN meta
    /\ meta[j].toml # "complete"
    /\ \A i \in DOMAIN meta \ {j} : meta[i].toml = "complete" /\ has_file_size(i)

\* C19: for a backup directory with N valid backup records and one corrupt
\* <uuid>.toml (unparsable, or with a missing key), get_backups raises nothing
\* and returns exactly the N valid backups, whatever sort_by is.
C19_ListingSkipsCorruptToml ==
    (pc = "done" /\ op.kind = "get_backups" /\ \E j \in DOMAIN meta : OneCorruptToml(j))
    => /\ result.status = "ok"
       /\ op.listed = {i \in DOMAIN meta : meta[i].toml = "complete"}

\* C21: activate() on an already-active schedule leaves exactly one cron job
\* tagged with the schedule's uuid, the crontab of a single activate().
C21_ActivateIdempotent ==
    (pc = "done" /\ op.kind = "schedule_activate" /\ pre.crontab[op.id] > 0)
    => /\ crontab[op.id] = 1
       /\ crontab = pre.crontab

\* C22: Schedule.deactivate removes every cron job tagged with the schedule's
\* uuid, however many there are, and leaves the jobs of other schedules as
\* they were; afterwards is_active() is False; on an inactive schedule it
\* changes nothing and does not raise.
C22_DeactivateRemovesAllJobs ==
    (pc = "done" /\ op.kind = "schedule_deactivate")
    => /\ result.status = "ok"
       /\ ~is_active(op.id)
       /\ crontab = [pre.crontab EXCEPT ![op.id] = 0]
       /\ schedules = pre.schedules
       /\ spaces = pre.spaces

C22_Witness ==
    /\ pc = "done"
    /\ op.kind = "schedule_deactivate"
    /\ pre.crontab[op.id] = 2
    /\ \E j \in DOMAIN schedules : j # op.id /\ crontab[j] > 0

C22_WitnessInactive ==
    /\ pc = "done"
    /\ op.kind = "schedule_deactivate"
    /\ pre.crontab[op.id] = 0

\* C23: Schedule.delete deregisters the schedule's cron jobs before it removes
\* the schedule's <uuid>.toml: in no state is the file gone while a job tagged
\* with the uuid is in the crontab, and after delete returns neither exists.
C23_DeleteDeactivatesFirst ==
    /\ \A j \in 1 .. MaxSchedules : crontab[j] > 0 => j \in DOMAIN schedules
    /\ (pc = "done" /\ op.kind = "schedule_delete" /\ result.status = "ok")
       => (op.id \notin DOMAIN schedules /\ crontab[op.id] = 0)

C23_Witness ==
    /\ pc = "done"
    /\ op.kind = "schedule_delete"
    /\ result.status = "ok"
    /\ pre.crontab[op.id] = 2

RemoteMethods == {"upload", "download", "mkdir", "remove", "get_hash"}

\* C24: whenever a remote operation (upload, download, mkdir, remove,
\* get_hash) has returned or raised, the session it opened is closed.
C24_SessionClosedOnReturn ==
    (pc = "done" /\ op.kind \in RemoteMethods) => client # "open"

\* the session is closed whenever a remote operation returns normally
SessionClosedOnNormalReturn ==
    (pc = "done" /\ op.kind \in RemoteMethods /\ result.status = "ok") => client = "closed"

\* an upload or download is running
Transferring == op.kind \in {"upload", "download"} /\ pc # "done"

\* C28: Remote.upload and Remote.download end even when every transfer gives
\* a mismatching digest: a call with max_retries = m transfers the file at
\* most m + 1 times, each further transfer having lowered the retry counter
\* by one, and the call comes to its return or raise.
C28_TransfersBoundedAndEnd ==
    /\ [](op.kind \in {"upload", "download"}
           => /\ op.max_retries \in 0 .. op.called_with
              /\ op.transfers <= (op.called_with - op.max_retries) + 1)
    /\ (Transferring ~> pc = "done")

C28_Witness ==
    /\ pc = "done"
    /\ op.kind \in {"upload", "download"}
    /\ op.called_with = 2
    /\ op.transfers = 3
    /\ op.copy = "damaged"

\* C25: BackupSpace.clear removes every backup of the space, locked or
\* unlocked, local and remote copies alike, and keeps the space: afterwards
\* get_backups() is empty and the space's config.toml is as it was.
C25_ClearRemovesEveryBackup ==
    (pc = "done" /\ op.kind = "clear")
    => /\ result.status = "ok"
       /\ get_backups(TRUE, FALSE) = {}
       /\ meta = Empty
       /\ local = Empty
       /\ rarch = Empty
       /\ rmeta = {}

\* what clear does when the remote session works: every backup that loads is
\* gone, locally and on the remote
ClearWithWorkingRemote ==
    (pc = "done" /\ op.kind = "clear" /\ result.status = "ok" /\ op.kept = {})
    => /\ get_backups(FALSE, FALSE) = {}
       /\ meta = Empty
       /\ local = Empty
       /\ \A i \in DOMAIN pre.meta : i \notin DOMAIN rarch /\ i \notin rmeta

C27_ListingSortedDescending ==
    (pc = "done" /\ op.kind = "get_backups" /\ result.status = "ok")
    => LET b == op.backups IN
       /\ {b[k] : k \in 1 .. Len(b)} = op.listed
       /\ Len(b) = Cardinality(op.listed)
       /\ op.sort_by = "date"
          => \A k \in 1 .. Len(b) - 1 : meta[b[k]].created_at >= meta[b[k + 1]].created_at
       /\ op.sort_by = "size"
          => \A k \in 1 .. Len(b) - 1 : get_file_size(b[k]) >= get_file_size(b[k + 1])
       /\ op.unlocked_only => \A k \in 1 .. Len(b) : ~meta[b[k]].locked

C27_Witness ==
    /\ pc = "done"
    /\ op.kind = "get_backups"
    /\ result.status = "ok"
    /\ op.sort_by = "size"
    /\ op.unlocked_only
    /\ \E i \in DOMAIN meta : meta[i].locked
    /\ Len(op.backups) >= 2
    /\ get_file_size(op.backups[1]) > get_file_size(op.backups[2])
    /\ op.backups[1] < op.backups[2]

C27_WitnessDate ==
    /\ pc = "done"
    /\ op.kind = "get_backups"
    /\ result.status = "ok"
    /\ op.sort_by = "date"
    /\ Len(op.backups) = 3

\* the sweep is running
Sweeping == pc \in {"auto_deletion", "perform_auto_deletion"}

\* the unlocked backups the sweep draws its victims from
Eligible == get_backups(FALSE, TRUE)

C30_SweepDeletesRuleVictim ==
    [][(Sweeping /\ meta' # meta)
       => \E v \in DOMAIN meta :
             /\ DOMAIN meta' = DOMAIN meta \ {v}
             /\ DOMAIN local' = DOMAIN local \ {v}
             /\ \A j \in DOMAIN meta \ {v} : meta'[j] = meta[j]
             /\ \A j \in DOMAIN meta :
                   CASE cfg.auto_deletion_rule = "oldest" ->
                          meta[v].created_at <= meta[j].created_at
                     [] cfg.auto_deletion_rule = "newest" ->
                          meta[v].created_at >= meta[j].created_at
                     [] cfg.auto_deletion_rule = "largest" ->
                          get_file_size(v) >= get_file_size(j)
                     [] cfg.auto_deletion_rule = "smallest" ->
                          get_file_size(v) <= get_file_size(j)]_vars

C30_Witness ==
    /\ pc = "perform_auto_deletion"
    /\ cfg.auto_deletion_rule = "largest"
    /\ Cardinality(DOMAIN pre.meta) = 2
    /\ Cardinality(DOMAIN meta) = 1
    /\ \E v \in DOMAIN pre.meta \ DOMAIN meta :
          /\ pre.local[v].size = 2
          /\ \E j \in DOMAIN meta : local[j].size = 1

\* ------------------------------------------------------------------- C31
\* count: the backups of the space, as get_backups() lists them
BackupCount == Cardinality(get_backups(TRUE, FALSE))

LimitReachedAsStated(post_creation) ==
    /\ cfg.max_backups # -1
    /\ IF post_creation THEN (BackupCount - 1) >= cfg.max_backups
                        ELSE BackupCount >= cfg.max_backups

\* C31: is_backup_limit_reached(post_creation) is False whenever max_backups
\* is -1; otherwise it is True exactly when count - 1 >= max_backups with
\* post_creation and exactly when count >= max_backups without it; the check
\* of Backup.new (post_creation) and the check of the create command (without)
\* branch accordingly
C31_BackupLimitReached ==
    /\ [](\A post_creation \in BOOLEAN :
            is_backup_limit_reached(post_creation) = LimitReachedAsStated(post_creation))
    /\ [][pc = "new_backup_limit"
            => ((pc' = "new_disk_limit") <=> ~LimitReachedAsStated(TRUE))]_vars
    /\ [][pc = "create_backup_limit"
            => ((pc' = "create_backup") <=> ~LimitReachedAsStated(FALSE))]_vars

\* Backup.new went on past its check with as many backups as the limit: the
\* new backup was not counted
C31_Witness ==
    /\ pc = "new_disk_limit"
    /\ cfg.max_backups = 2
    /\ BackupCount = 2

\* the check of the create command stopped at a space that is at its limit
C31_WitnessReached ==
    /\ pc = "done"
    /\ op.kind = "create_command"
    /\ result.status = "BackupLimitExceededError"
    /\ cfg.max_backups = 1
    /\ BackupCount = 1

\* Backup.new, called on a space at its limit, rolled back
C31_WitnessPostCreation ==
    /\ pc = "done"
    /\ op.kind = "new"
    /\ result.status = "MemoryError"
    /\ cfg.max_backups = 2
    /\ Cardinality(DOMAIN pre.meta) = 2

\* ------------------------------------------------------------------- C32
\* the digest of the copy in the tier equals the persisted digest
TierMatches(i, remote) ==
    IF remote THEN has_remote_archive(i) /\ remote_get_hash(i) = meta[i].hash
    ELSE has_local_archive(i) /\ calculate_hash(i) = meta[i].hash

\* C32: check_hash(remote) returns True exactly when the digest of the copy
\* in the requested tier equals the persisted digest; with remote = True it is
\* False when no remote archive exists, whatever the local archive is
C32_CheckHashOfRequestedTier ==
    (pc = "done" /\ op.kind = "check_hash" /\ result.status = "ok")
        => op.returned = TierMatches(op.id, op.remote)

\* the same for the calls the claim gets right: the local tier, and the
\* remote tier of a backup that has a remote archive
CheckHashOfPresentTier ==
    (/\ pc = "done" /\ op.kind = "check_hash" /\ result.status = "ok"
     /\ (op.remote => has_remote_archive(op.id)))
        => op.returned = TierMatches(op.id, op.remote)

\* ------------------------------------------------------------------- C33
\* a present copy (local or remote) whose digest is not the persisted one
PresentCopyMismatches(i) ==
    \/ has_remote_archive(i) /\ remote_get_hash(i) # meta[i].hash
    \/ has_local_archive(i) /\ calculate_hash(i) # meta[i].hash

Loaded == pc = "done" /\ op.kind = "load"

\* C33: with check_hash = True load_by_uuid verifies every present copy; on a
\* mismatch of any present copy it returns with a warning when fail_invalid is
\* False and raises InvalidChecksumError when it is True, and returns without
\* warning when every present copy matches; a missing or unparsable metadata
\* file raises InvalidBackupError whatever the arguments
C33_LoadVerifiesEveryPresentCopy ==
    Loaded =>
        IF op.id \notin DOMAIN meta THEN result.status = "InvalidBackupError"
        ELSE IF meta[op.id].toml = "unparsable" THEN result.status = "InvalidBackupError"
        ELSE (op.check_hash /\ (has_local_archive(op.id) \/ has_remote_archive(op.id))) =>
                IF PresentCopyMismatches(op.id)
                THEN IF op.fail_invalid THEN result.status = "InvalidChecksumError"
                     ELSE result.status = "ok" /\ op.warned # {}
                ELSE result.status = "ok" /\ op.warned = {}

\* a backup with an intact remote copy and a damaged local one was loaded with
\* check_hash and fail_invalid, and the load raised
C33_Witness ==
    /\ Loaded
    /\ op.check_hash /\ op.fail_invalid
    /\ op.id \in DOMAIN meta
    /\ has_remote_archive(op.id) /\ remote_get_hash(op.id) = meta[op.id].hash
    /\ has_local_archive(op.id) /\ calculate_hash(op.id) # meta[op.id].hash
    /\ result.status = "InvalidChecksumError"

\* the same backup loaded without fail_invalid: returned, warned about the
\* local copy
C33_WitnessWarned ==
    /\ Loaded
    /\ op.check_hash /\ ~op.fail_invalid
    /\ op.warned = {FALSE}
    /\ result.status = "ok"

\* an unparsable and a missing metadata file, loaded without check_hash
C33_WitnessUnparsable ==
    /\ Loaded
    /\ ~op.check_hash
    /\ op.id \in DOMAIN meta
    /\ meta[op.id].toml = "unparsable"
    /\ result.status = "InvalidBackupError"

C33_WitnessMissing ==
    /\ Loaded
    /\ ~op.check_hash
    /\ op.id \notin DOMAIN meta
    /\ result.status = "InvalidBackupError"

\* ------------------------------------------------------------------- C34
\* the keys update_config writes
KnownKeys == {"hash", "created_at", "remote", "full", "locked"}

\* lock() or unlock() has written the metadata file of op.id
ConfigUpdated == pc # "idle" /\ op.kind \in {"lock", "unlock"}

\* C34: update_config is a read-modify-write merge: the file it leaves holds
\* the stored keys and the backup's keys, the backup's field values (the flag
\* just set among them) for its own keys, and every stored key the backup does
\* not know with its stored value; applying it again leaves the same file
C34_UpdateConfigMergePreserves ==
    ConfigUpdated =>
        LET stored == pre.meta[op.id]
            now == meta[op.id]
            flag == (op.kind = "lock")
        IN /\ DOMAIN now = DOMAIN stored \cup KnownKeys
           /\ now.locked = flag
           /\ \A k \in KnownKeys \ {"locked"} : now[k] = stored[k]
           /\ \A k \in DOMAIN stored \ KnownKeys : now[k] = stored[k]
           /\ merge(merge(Empty, now), config_content(op.id, flag)) = now

\* lock() on an unlocked backup whose file holds a key unknown to the program
C34_Witness ==
    /\ ConfigUpdated
    /\ pc = "done"
    /\ op.kind = "lock"
    /\ ~pre.meta[op.id].locked
    /\ "note" \in DOMAIN pre.meta[op.id]
    /\ meta[op.id].note = "kept"
    /\ meta[op.id].locked

\* the same on a backup with a remote copy and a file without comment
C34_WitnessRemote ==
    /\ ConfigUpdated
    /\ pc = "done"
    /\ result.status = "ok"
    /\ has_remote_archive(op.id)
    /\ meta[op.id].toml = "no_comment"
    /\ "note" \in DOMAIN meta[op.id]

\* ------------------------------------------------------------------- C35
\* the file update_config leaves when the backup was loaded from `stored`
update_config_of(stored, flag) ==
    merge(merge(Empty, stored), backup_fields(stored, flag))

C35_WitnessUnlock ==
    /\ pc = "done"
    /\ op.kind = "unlock"
    /\ result.status = "ok"
    /\ pre.meta[op.id].locked
    /\ ~meta[op.id].locked

\* ------------------------------------------------------------------- C36
\* uuids that were drawn and have no metadata file (any more)
Gone == {i \in Ids : i < nextId /\ i \notin DOMAIN meta}

\* C36: deletion is terminal: a delete() that returned has removed the
\* backup's metadata file, no step of a later operation (lock, unlock,
\* create_backup, perform_auto_deletion, clear, restore) brings the metadata
\* file of a uuid back, and load_by_uuid of such a uuid raises
\* InvalidBackupError whatever its arguments
C36_DeletionIsTerminal ==
    /\ []((pc = "done" /\ op.kind = "delete" /\ result.status = "ok") => op.id \in Gone)
    /\ [][\A i \in Gone : i \notin DOMAIN meta']_vars
    /\ [](\A i \in Gone : \A chk \in BOOLEAN, fail_invalid \in BOOLEAN :
              load_by_uuid(i, chk, fail_invalid) = "InvalidBackupError")

\* lock() or unlock() was called on a deleted backup while another backup was
\* created after the deletion
C36_Witness ==
    /\ pc = "done"
    /\ op.kind \in {"lock", "unlock"}
    /\ op.id \in Gone
    /\ result.status = "FileNotFoundError"
    /\ \E j \in DOMAIN meta : j > op.id

\* restore was called on a deleted backup
C36_WitnessRestore ==
    /\ pc = "done"
    /\ op.kind = "restore"
    /\ op.id \in Gone
    /\ result.status = "InvalidBackupError"

\* delete() returned and left the remote copies behind
C36_WitnessDelete ==
    /\ pc = "done"
    /\ op.kind = "delete"
    /\ result.status = "ok"
    /\ op.id \in DOMAIN rarch

\* ------------------------------------------------------------------- C37
\* restore_backup is past its removal step and has not extracted yet
BeforeExtraction ==
    op.kind = "restore" /\ pc \in {"restore_download", "restore_unpack"}

\* C37: before extraction, a CLEAN restore of a full backup has removed every
\* file the target held, a CLEAN restore of a filtered backup has removed the
\* files its filters select ("pre_match") and no other file the target held
\* ("pre_other"), and an OVERWRITE restore has removed nothing; a restore that
\* returns has added the extracted files to exactly that
C37_CleanRemovesWhatTheBackupCovers ==
    /\ BeforeExtraction =>
          /\ (op.mode = "CLEAN" /\ meta[op.id].full) => target = {}
          /\ (op.mode = "CLEAN" /\ ~meta[op.id].full) =>
                /\ target \subseteq pre.target
                /\ "pre_match" \notin target
                /\ "pre_other" \in pre.target => "pre_other" \in target
          /\ op.mode = "OVERWRITE" => target = pre.target
    /\ (pc = "done" /\ op.kind = "restore" /\ result.status = "ok") =>
          /\ "restored" \in target
          /\ (op.mode = "CLEAN" /\ meta[op.id].full) => target = {"restored"}
          /\ (op.mode = "CLEAN" /\ ~meta[op.id].full) =>
                /\ "pre_match" \notin target
                /\ "pre_other" \in pre.target => "pre_other" \in target
          /\ op.mode = "OVERWRITE" => target = pre.target \cup {"restored"}

\* a CLEAN restore of a filtered backup removed the selected file and kept
\* the other one
C37_Witness ==
    /\ BeforeExtraction
    /\ op.mode = "CLEAN"
    /\ ~meta[op.id].full
    /\ pre.target = {"pre_match", "pre_other"}
    /\ target = {"pre_other"}

\* a CLEAN restore of a full backup wiped the target
C37_WitnessFull ==
    /\ BeforeExtraction
    /\ op.mode = "CLEAN"
    /\ meta[op.id].full
    /\ pre.target = {"pre_match", "pre_other"}
    /\ target = {}

\* an OVERWRITE restore returned
C37_WitnessOverwrite ==
    /\ pc = "done" /\ op.kind = "restore" /\ result.status = "ok"
    /\ op.mode = "OVERWRITE"
    /\ pre.target = {"pre_match", "pre_other"}
    /\ target = {"pre_match", "pre_other", "restored"}

\* ------------------------------------------------------------------- C38
\* both calls have ended; which of them raised and which backups are left
RaceEnded == \A p \in Procs : pc[p] = "done"

Outcome == [failed |-> {p \in Procs : result[p].status # "ok"}, remain |-> DOMAIN meta]

Overlapped == \E p \in Procs : op[p].overlapped

\* the sweep and the call as the sequential program runs them, on the set of
\* backups of the space; `first` is the call that ran first (the older backup)
RECURSIVE SweepSequentially(_, _)
SweepSequentially(S, first) ==
    IF S # {} /\ cfg.max_backups # -1 /\ Cardinality(S) >= cfg.max_backups
    THEN LET oldest == IF first \in S THEN first ELSE CHOOSE p \in S : TRUE
             newest == IF S # {first} THEN CHOOSE p \in S : p # first ELSE first
             victim == IF cfg.auto_deletion_rule = "oldest" THEN oldest ELSE newest
         IN SweepSequentially(S \ {victim}, first)
    ELSE S

AfterCall(before, p, first) ==
    LET S == before.remain \cup {p} IN
    IF cfg.max_backups # -1 /\ Cardinality(S) - 1 >= cfg.max_backups
    THEN IF cfg.auto_deletion
         THEN [failed |-> before.failed, remain |-> SweepSequentially(S, first)]
         ELSE [failed |-> before.failed \cup {p}, remain |-> before.remain]
    ELSE [failed |-> before.failed, remain |-> S]

SequentialOutcome(first) ==
    LET second == CHOOSE p \in Procs : p # first
    IN AfterCall(AfterCall([failed |-> {}, remain |-> {}], first, first), second, first)

\* C38: two create_backup calls on one space are not serialized: calls that
\* do not overlap end with the outcome of the sequential order they ran in,
\* and nothing keeps them from overlapping (the second call can start and
\* list the directory while the first is between its steps); the overlapping
\* run whose outcome is that of neither order is C38_Witness
C38_SerialRunsAreSequential ==
    /\ RaceEnded /\ ~Overlapped =>
          \E first \in Procs :
              /\ \A p \in Procs : op[first].created_at <= op[p].created_at
              /\ Outcome = SequentialOutcome(first)
    /\ \A p \in Procs : pc[p] = "idle" => ENABLED RaceArchive(p)

\* both calls have ended and the outcome is that of neither sequential order
C38_Witness ==
    /\ RaceEnded
    /\ Overlapped
    /\ \A first \in Procs : Outcome # SequentialOutcome(first)

\* the race on a hard limit of one backup: both calls rolled back, where
\* either order lets the first call succeed
C38_WitnessBothFail ==
    /\ RaceEnded
    /\ cfg.max_backups = 1 /\ ~cfg.auto_deletion
    /\ Outcome = [failed |-> Procs, remain |-> {}]
    /\ \A first \in Procs : SequentialOutcome(first) = [failed |-> Procs \ {first}, remain |-> {first}]

\* the race in the sweep: a call failed on a backup the other call had deleted
C38_WitnessSweep ==
    /\ RaceEnded
    /\ cfg.auto_deletion
    /\ \E p \in Procs : result[p].status = "FileNotFoundError"
    /\ \A first \in Procs : SequentialOutcome(first).failed = {}

\* ------------------------------------------------------------------- C39
\* a restore from the remote of a backup that has no local archive and whose
\* remote archive has the persisted digest has ended
RemoteOnlyRestoreEnded ==
    /\ pc = "done"
    /\ op.kind = "restore"
    /\ op.source = "remote"
    /\ op.id \in DOMAIN meta
    /\ ~has_local_archive(op.id)
    /\ has_remote_archive(op.id)
    /\ remote_get_hash(op.id) = meta[op.id].hash

\* C39: a backup that exists only on the remote can be restored with source
\* 'remote': unless the transfer itself fails, restore_backup downloads the
\* archive to a temporary copy, extracts it into the target, removes the copy
\* and returns
C39_RemoteOnlyBackupRestores ==
    RemoteOnlyRestoreEnded =>
        \/ result.status = "TransportError"
        \/ /\ result.status = "ok"
           /\ "restored" \in target
           /\ op.tmp = "none"

\* the same restore of a backup that also has its local archive
RemoteRestoreWithLocalArchive ==
    (/\ pc = "done" /\ op.kind = "restore" /\ op.source = "remote"
     /\ op.id \in DOMAIN meta
     /\ has_local_archive(op.id)
     /\ has_remote_archive(op.id)
     /\ remote_get_hash(op.id) = meta[op.id].hash
     /\ xfer.fn = "download" /\ xfer.outcome = "returned")
        => /\ result.status = "ok"
           /\ "restored" \in target
           /\ op.tmp = "none"

\* ------------------------------------------------------------------- C40
RestoreRaised == pc = "done" /\ op.kind = "restore" /\ result.status # "ok"

\* C40: whenever restore_backup ends by raising, the target holds exactly the
\* content it held before the call, in every restore mode
C40_FailedRestoreLeavesTarget ==
    RestoreRaised => target = pre.target

\* the case the claim names: source 'remote', not forced, the download failed
\* its integrity check after all retries
DownloadMismatchRaised ==
    /\ RestoreRaised
    /\ op.source = "remote"
    /\ ~op.force
    /\ xfer.fn = "download"
    /\ op.retries = 0
    /\ result.status = "InvalidChecksumError"

\* that case in mode CLEAN: the claim, which the program does not meet
FailedDownloadLeavesTargetInClean ==
    (DownloadMismatchRaised /\ op.mode = "CLEAN") => target = pre.target

\* what the program does keep: a restore that raises before extraction in a
\* mode other than CLEAN has not touched the target
FailedRestoreLeavesTargetUnlessClean ==
    (RestoreRaised /\ op.mode # "CLEAN" /\ result.status # "ReadError") => target = pre.target

====
